---- MODULE Spec2Model ----
(***************************************************************************)
(* Crawl / reconcile / monitor pipeline of the dealer-inventory scraper.   *)
(*                                                                         *)
(* Specifications of this module:                                          *)
(*   SpecFlight  the API process: trigger_scrape requests, the background  *)
(*               _monitor_loop and the run subprocesses they launch        *)
(*               (routers/scrape.py, routers/monitor.py);                  *)
(*   SpecRecon   consecutive executions of scrape_real.main against the    *)
(*               persisted catalog (listing crawl, detail extraction,      *)
(*               upsert loop, mark-removed pass), from an empty catalog;   *)
(*   SpecSeeded  the same, from a catalog with an inactive record;         *)
(*   SpecDetail  executions of main against sites whose detail pages may   *)
(*               fail to load;                                             *)
(*   SpecFault   the same, where a listing page may be unreachable and     *)
(*               the datastore may fail in the upsert loop;                *)
(*   SpecMonitor the _monitor_loop task with its drift check, exceptions,  *)
(*               cancellation and update_monitor_config;                   *)
(*   SpecParse   one execution of main against a detail page given by its  *)
(*               price and mileage texts;                                  *)
(*   SpecRetry   one navigation call through retry_with_backoff or         *)
(*               navigate;                                                 *)
(*   SpecConfig  the monitor_config row under PUT /config, GET /compare,   *)
(*               manual triggers and the scheduler cycles;                 *)
(*   SpecTrigger trigger_scrape requests and their runs, without the loop. *)
(***************************************************************************)
EXTENDS Integers, Sequences, FiniteSets, TLC

VARIABLES
    \* ---- API process and run subprocesses (SpecFlight) ----
    scrape_logs,     \* committed scrape_logs rows, in insertion order
    _running_pids,   \* routers/scrape.py module dict: task ids with a recorded pid
    alive,           \* task ids whose run subprocess is alive
    req,             \* per in-flight trigger_scrape request: position and session state
    mon,             \* position and locals of the _monitor_loop task
    next_task,       \* number of task ids handed out so far
    progress,        \* .scrape_progress/<task_id>.json: status of each task's snapshot
    monitor_config,  \* the monitor_config row (id 1)
    system_logs,     \* system_logs: the messages of the loop's stop and error handlers
    _monitor_task,   \* routers/monitor.py module global: the task handle or None
    nav,             \* the navigation call in progress: attempts, waits, outcome
    api,             \* the last response of PUT /config or GET /compare
    remote,          \* the remote inventory, where a behaviour holds it fixed
    orphans,         \* loop tasks not done whose handle _monitor_task dropped
    paging,          \* the listing pagination in progress: its site, page and stubs
    sync,            \* .sync_progress.json and the GET /compare requests in flight
    \* ---- catalog and audit trail (SpecRecon) ----
    vehicles,        \* vehicles table rows, in insertion order
    change_log,      \* vehicle_change_log rows, append-only
    price_history,   \* vehicle_price_history rows, append-only
    runs             \* one entry per finished execution of scrape_real.main

monitorVars == <<monitor_config, system_logs, _monitor_task>>
flightVars == <<scrape_logs, _running_pids, alive, req, mon, next_task, progress,
                monitor_config, system_logs, _monitor_task, nav, api, remote,
                orphans, paging, sync>>
reconVars  == <<vehicles, change_log, price_history, runs>>
vars       == <<scrape_logs, _running_pids, alive, req, mon, next_task, progress,
                monitor_config, system_logs, _monitor_task, nav, api, remote,
                orphans, paging, sync, vehicles, change_log, price_history,
                runs>>

\* Total number of run launches (task ids) explored.
MaxTasks == 2

\* Concurrent trigger_scrape requests.
Requests == {"r1", "r2"}

RUNNING   == "running"
COMPLETED == "completed"
FAILED    == "failed"

NoTask == 0

(***************************************************************************)
(* routers/scrape.py                                                       *)
(***************************************************************************)

\* os.kill(pid, 0): the pid of a task is alive while its subprocess is.
_is_subprocess_alive(pid) == pid \in alive

\* Indices of the rows of a sequence of scrape_logs rows that are RUNNING.
RunningIdx(rows) == {i \in 1..Len(rows) : rows[i].status = RUNNING}

\* select(ScrapeLog).where(status == RUNNING).order_by(desc(started_at)).limit(1)
\* started_at grows with the task number, so the latest row has the largest id.
\* The result is the position of the row, 0 when there is none.
LatestRunning(rows) ==
    IF RunningIdx(rows) = {} THEN 0
    ELSE CHOOSE i \in RunningIdx(rows) :
            \A j \in RunningIdx(rows) :
                \/ rows[j].task_id < rows[i].task_id
                \/ rows[j].task_id = rows[i].task_id /\ j <= i

\* stale is the position of the row the guard found RUNNING and not alive.
IdleReq == [pc |-> "idle", stale |-> 0, task |-> NoTask,
            resp |-> "none", called_alive |-> FALSE]

\* trigger_scrape, lines 85-102: the guard.  The select and the liveness test
\* run without an await between them; the 409 is raised here.
trigger_scrape_guard(r) ==
    /\ req[r].pc = "idle"
    /\ LET running_log == LatestRunning(scrape_logs)
           live == /\ running_log # 0
                   /\ scrape_logs[running_log].task_id \in _running_pids
                   /\ _is_subprocess_alive(scrape_logs[running_log].task_id)
       IN req' = [req EXCEPT ![r] =
                    [pc |-> IF live THEN "done" ELSE "flushed",
                     stale |-> IF live THEN 0 ELSE running_log,
                     task |-> NoTask,
                     resp |-> IF live THEN "409" ELSE "none",
                     called_alive |-> alive # {}]]
    /\ UNCHANGED <<scrape_logs, _running_pids, alive, mon, next_task, progress, monitorVars, nav>>

\* Variant of trigger_scrape_launch: the pid of the subprocess is not
\* recorded.
trigger_scrape_launch_NoPid(r) ==
    /\ req[r].pc = "flushed"
    /\ next_task < MaxTasks
    /\ LET task_id == next_task + 1
       IN /\ next_task' = task_id
          /\ alive' = alive \cup {task_id}
          /\ progress' = [progress EXCEPT ![task_id] = RUNNING]
          /\ req' = [req EXCEPT ![r].pc = "returned", ![r].task = task_id,
                                ![r].resp = "200"]
    /\ UNCHANGED <<scrape_logs, _running_pids, mon, monitorVars, nav>>

\* trigger_scrape, lines 104-141: after the flushes the new row is pending in
\* the request's session, the progress file is written, the subprocess is
\* started and its pid recorded.
trigger_scrape_launch(r) ==
    /\ req[r].pc = "flushed"
    /\ next_task < MaxTasks
    /\ LET task_id == next_task + 1
       IN /\ next_task' = task_id
          /\ alive' = alive \cup {task_id}
          /\ _running_pids' = _running_pids \cup {task_id}
          /\ progress' = [progress EXCEPT ![task_id] = RUNNING]
          /\ req' = [req EXCEPT ![r].pc = "returned", ![r].task = task_id,
                                ![r].resp = "200"]
    /\ UNCHANGED <<scrape_logs, mon, monitorVars, nav>>

\* database.get_db: the request's session commits after the handler returned
\* (the stale row's UPDATE and the new row's INSERT become visible).
trigger_scrape_commit(r) ==
    /\ req[r].pc = "returned"
    /\ LET marked == [i \in 1..Len(scrape_logs) |->
                        IF i = req[r].stale
                        THEN [scrape_logs[i] EXCEPT !.status = FAILED]
                        ELSE scrape_logs[i]]
       IN scrape_logs' = Append(marked, [task_id |-> req[r].task, status |-> RUNNING,
                                        origin |-> "scrape"])
    /\ req' = [req EXCEPT ![r].pc = "done"]
    /\ UNCHANGED <<_running_pids, alive, mon, next_task, progress, monitorVars, nav>>

\* The response has been sent; the request slot is free for the next call.
trigger_scrape_end(r) ==
    /\ req[r].pc = "done"
    /\ req' = [req EXCEPT ![r] = IdleReq]
    /\ UNCHANGED <<scrape_logs, _running_pids, alive, mon, next_task, progress, monitorVars, nav>>

(***************************************************************************)
(* scrape_real.py as a subprocess: how a run ends                          *)
(***************************************************************************)

HasRow(rows, task_id) == \E i \in 1..Len(rows) : rows[i].task_id = task_id

SetStatus(rows, task_id, st) ==
    [i \in 1..Len(rows) |-> IF rows[i].task_id = task_id
                            THEN [rows[i] EXCEPT !.status = st] ELSE rows[i]]

\* main, lines 823-876: the run sets its row COMPLETED, or adds one when the
\* row is not there ("Shouldn't happen"), commits, writes the final progress
\* snapshot and exits.
run_exit_completed(t) ==
    /\ t \in alive
    /\ alive' = alive \ {t}
    /\ scrape_logs' = IF HasRow(scrape_logs, t)
                      THEN SetStatus(scrape_logs, t, COMPLETED)
                      ELSE Append(scrape_logs, [task_id |-> t, status |-> COMPLETED,
                                                origin |-> "run"])
    /\ progress' = [progress EXCEPT ![t] = COMPLETED]
    /\ UNCHANGED <<_running_pids, req, mon, next_task, monitorVars, nav>>

\* __main__, lines 902-938: an exception leaves main; the fallback writes
\* the failure snapshot, its UPDATE sets the row FAILED (no row, no effect)
\* and the process exits.
run_exit_crashed(t) ==
    /\ t \in alive
    /\ alive' = alive \ {t}
    /\ scrape_logs' = SetStatus(scrape_logs, t, FAILED)
    /\ progress' = [progress EXCEPT ![t] = FAILED]
    /\ UNCHANGED <<_running_pids, req, mon, next_task, monitorVars, nav>>

\* main, lines 603-610: the listing is empty; main writes the failure
\* snapshot and returns without touching its row, and the process exits.
run_exit_no_vehicles(t) ==
    /\ t \in alive
    /\ alive' = alive \ {t}
    /\ progress' = [progress EXCEPT ![t] = FAILED]
    /\ UNCHANGED <<scrape_logs, _running_pids, req, mon, next_task, monitorVars, nav>>

\* The process ends without reaching any of these writes (it is killed by
\* the system): the row and the snapshot stay as they are.
run_exit_silent(t) ==
    /\ t \in alive
    /\ alive' = alive \ {t}
    /\ UNCHANGED <<scrape_logs, _running_pids, req, mon, next_task, progress, monitorVars, nav>>

(***************************************************************************)
(* scrape_real.py: values, the remote site, the crawl                      *)
(***************************************************************************)

\* Number of executions of scrape_real.main explored.
MaxRuns == 3

\* Listing pages of the remote site.
MaxPages == 2

VINs   == {"VIN1", "VIN2"}
URLs   == {"u1", "u2"}
\* Prices in cents: 1.00 and 1.99.
Prices == {100, 199}

\* Python values: None, a float and a Decimal (both exact to the cent), an
\* int, a str.
None       == [t |-> "none",    c |-> 0, s |-> ""]
PyFloat(c) == [t |-> "float",   c |-> c, s |-> ""]
Decimal(c) == [t |-> "decimal", c |-> c, s |-> ""]
PyInt(n)   == [t |-> "int",     c |-> n, s |-> ""]
Str(x)     == [t |-> "str",     c |-> 0, s |-> x]

TwoDigits(n) == IF n < 10 THEN "0" \o ToString(n) ELSE ToString(n)

\* str() of a float with at most two decimals: the shortest repr, with at
\* least one digit after the point (1.0, 1.5, 1.99, 1.05).
StrFloat(c) ==
    ToString(c \div 100) \o "." \o
        (IF c % 100 = 0 THEN "0"
         ELSE IF c % 10 = 0 THEN ToString((c % 100) \div 10)
         ELSE TwoDigits(c % 100))

\* str() of the Decimal a Numeric(12, 2) column yields: always two decimals.
StrDecimal(c) == ToString(c \div 100) \o "." \o TwoDigits(c % 100)

\* Python str(x).
PyStr(x) ==
    CASE x.t = "none"    -> "None"
      [] x.t = "float"   -> StrFloat(x.c)
      [] x.t = "decimal" -> StrDecimal(x.c)
      [] x.t = "int"     -> ToString(x.c)
      [] x.t = "str"     -> x.s

\* Python truthiness of a value.
Truthy(x) ==
    CASE x.t = "none" -> FALSE
      [] x.t = "str"  -> x.s # ""
      [] OTHER        -> x.c # 0

\* What a column holds once the row is written and read back: a Numeric
\* column returns a Decimal for the float that was stored.
Stored(x) == IF x.t = "float" THEN Decimal(x.c) ELSE x

_tracked_fields ==
    << "stock_number", "year", "make", "model", "trim",
       "price", "mileage", "exterior_color", "interior_color",
       "body_style", "drivetrain", "engine", "transmission",
       "detail_url" >>

FieldNames == {_tracked_fields[i] : i \in 1..Len(_tracked_fields)}

\* A detail page that loads and carries no VIN.
NoVin == [vin |-> "", price |-> None, raises |-> FALSE]

\* A detail page on which scrape_detail_page raises (navigate gave up after
\* its retries, or the extraction failed).
DetailError == [vin |-> "", price |-> None, raises |-> TRUE]

\* What the detail page behind a URL yields when it loads: a VIN and a
\* price, or no VIN.  The first URL carries VIN1 at any price, or no VIN; the
\* second URL carries either VIN at one price.
DetailOf(url) ==
    IF url = "u1"
    THEN {NoVin} \cup {[vin |-> "VIN1", price |-> p, raises |-> FALSE] :
                         p \in {None} \cup {PyFloat(c) : c \in Prices}}
    ELSE {[vin |-> v, price |-> PyFloat(100), raises |-> FALSE] : v \in VINs}

\* What the detail page of a URL that no page lists is taken to be.
Unlisted(url) ==
    IF url = "u1" THEN NoVin ELSE [vin |-> "VIN2", price |-> PyFloat(100), raises |-> FALSE]

\* A listing page is the sequence of the detail URLs it links to.
PageSet == {<<"u1">>, <<"u2">>}

\* Position of the first page of pg that lists url (Len(pg) + 1 when none).
FirstPage(pg, url) ==
    LET on == {p \in 1..Len(pg) : \E k \in 1..Len(pg[p]) : pg[p][k] = url}
    IN IF on = {} THEN Len(pg) + 1 ELSE CHOOSE p \in on : \A q \in on : p <= q

\* The page sequences of a site: one page that lists nothing, or one to
\* MaxPages pages that each list a vehicle; the site lists "u1" no later
\* than "u2".
PageSeqs ==
    {<< << >> >>} \cup
    {pg \in UNION {[1..n -> PageSet] : n \in 1..MaxPages} :
        FirstPage(pg, "u2") > Len(pg) \/ FirstPage(pg, "u1") <= FirstPage(pg, "u2")}

ListedUrls(pg) ==
    UNION {{pg[p][k] : k \in 1..Len(pg[p])} : p \in 1..Len(pg)}

\* What the detail page behind url may be on a site with pages pg.
DetailsOn(pg, url) ==
    IF url \in ListedUrls(pg) THEN DetailOf(url) ELSE {Unlisted(url)}

\* The same, on a site whose detail pages may also fail to load.
FaultyDetailsOn(pg, url) ==
    IF url \in ListedUrls(pg) THEN DetailOf(url) \cup {DetailError} ELSE {Unlisted(url)}

\* The remote inventory at the time of a run: its listing pages (at least
\* one) and the detail page behind every URL.
Sites ==
    UNION {{[pages |-> pg, detail |-> [u \in URLs |-> IF u = "u1" THEN d1 ELSE d2]] :
               d1 \in DetailsOn(pg, "u1"), d2 \in DetailsOn(pg, "u2")} :
           pg \in PageSeqs}

\* The remote inventories in which a listed detail page may raise.
FaultySites ==
    UNION {{[pages |-> pg, detail |-> [u \in URLs |-> IF u = "u1" THEN d1 ELSE d2]] :
               d1 \in FaultyDetailsOn(pg, "u1"), d2 \in FaultyDetailsOn(pg, "u2")} :
           pg \in PageSeqs}

\* The fields build_vehicle_record reads off the detail page of the one
\* vehicle description the explored sites show.
TheVehicle ==
    [n \in FieldNames |->
       CASE n = "year"    -> PyInt(2020)
         [] n = "mileage" -> PyInt(15234)
         [] n = "trim"    -> None
         [] n = "price"   -> None
         [] n = "make"    -> Str("Honda")
         [] n = "model"   -> Str("Civic")
         [] OTHER         -> Str("")]

\* build_vehicle_record: the canonical record of a detail page.  Only price
\* and detail_url vary in the explored sites; the other fields are those of
\* one fixed vehicle description.
build_vehicle_record(o, detail_url) ==
    [vin |-> o.vin,
     f |-> [TheVehicle EXCEPT !["price"] = o.price, !["detail_url"] = Str(detail_url)]]

\* get_listing_vehicles_page: the stubs of page page_num and whether the
\* page links to page_num + 1.
get_listing_vehicles_page(pages, page_num) ==
    [listings |-> IF page_num <= Len(pages) THEN pages[page_num] ELSE << >>,
     has_next |-> page_num < Len(pages)]

RECURSIVE DedupInto(_, _)
\* Lines 208-213: append the URLs of a page that were not seen before.
DedupInto(all_listings, listings) ==
    IF listings = << >> THEN all_listings
    ELSE LET url == Head(listings)
             seen == {all_listings[i] : i \in 1..Len(all_listings)}
         IN DedupInto(IF url \in seen THEN all_listings ELSE Append(all_listings, url),
                      Tail(listings))

RECURSIVE ListingLoop(_, _, _, _)
ListingLoop(pages, max_pages, page_num, all_listings) ==
    LET pg  == get_listing_vehicles_page(pages, page_num)
        acc == DedupInto(all_listings, pg.listings)
    IN IF ~pg.has_next THEN [listings |-> acc, page_num |-> page_num]
       ELSE IF max_pages # 0 /\ page_num >= max_pages
            THEN [listings |-> acc, page_num |-> page_num]
       ELSE ListingLoop(pages, max_pages, page_num + 1, acc)

\* get_all_listing_vehicles(page, max_pages): 0 = all pages.
get_all_listing_vehicles(pages, max_pages) == ListingLoop(pages, max_pages, 1, << >>)

\* The run-level error strings of lines 647 and 675.
ErrNoVin(detail_url)    == [msg |-> "No VIN found at", url |-> detail_url]
ErrScraping(detail_url) == [msg |-> "Error scraping", url |-> detail_url]

\* Variant of ScrapeDetail: the record is kept whether or not it has a VIN.
ScrapeDetail_KeepsNoVin(page, detail_url) ==
    IF page.raises
    THEN [all_vehicles |-> << >>, errors |-> <<ErrScraping(detail_url)>>]
    ELSE [all_vehicles |-> <<build_vehicle_record(page, detail_url)>>, errors |-> << >>]

\* main, lines 642-678: one pass of the detail loop.  A detail page that
\* raises and a record without VIN each add one error string and the stub is
\* skipped; otherwise the record joins all_vehicles.
ScrapeDetail(page, detail_url) ==
    IF page.raises
    THEN [all_vehicles |-> << >>, errors |-> <<ErrScraping(detail_url)>>]
    ELSE IF build_vehicle_record(page, detail_url).vin = ""
    THEN [all_vehicles |-> << >>, errors |-> <<ErrNoVin(detail_url)>>]
    ELSE [all_vehicles |-> <<build_vehicle_record(page, detail_url)>>, errors |-> << >>]

RECURSIVE DetailLoop(_, _)
\* main, lines 623-678: visit each stub in listing order.
DetailLoop(site, listings) ==
    IF listings = << >> THEN [all_vehicles |-> << >>, errors |-> << >>]
    ELSE LET one  == ScrapeDetail(site.detail[Head(listings)], Head(listings))
             rest == DetailLoop(site, Tail(listings))
         IN [all_vehicles |-> one.all_vehicles \o rest.all_vehicles,
             errors |-> one.errors \o rest.errors]

(***************************************************************************)
(* scrape_real.py: main, step 3 (upsert, mark removed, run log, commit)    *)
(***************************************************************************)

\* Variant of SelectVehicle: the lookup is restricted to active rows.
SelectVehicle_ActiveOnly(rows, vin) ==
    {i \in 1..Len(rows) : rows[i].vin = vin /\ rows[i].is_active}

\* Indices of the rows with the given VIN, as the session sees them: the
\* select autoflushes, so rows added earlier in the run are found too.
SelectVehicle(rows, vin) == {i \in 1..Len(rows) : rows[i].vin = vin}

\* Lines 727-728: the normalised string of a field value.
NormStr(val) == IF val # None THEN PyStr(val) ELSE ""

\* Line 740: str(x or "").
StrOrEmpty(val) == IF Truthy(val) THEN PyStr(val) ELSE ""

\* Lines 731-735.
UpdatedEntry(vin, field, old_str, new_str, task_id) ==
    [vin |-> vin, change_type |-> "updated", field_name |-> field,
     old_value |-> old_str, new_value |-> new_str, task_id |-> task_id]

\* Lines 722-735: one "updated" entry per tracked field whose strings differ,
\* in the order of _tracked_fields.
ChangedFields(existing, v, task_id) ==
    LET changed == SelectSeq(_tracked_fields,
                             LAMBDA n : NormStr(existing.f[n]) # NormStr(v.f[n]))
    IN [i \in 1..Len(changed) |->
          UpdatedEntry(v.vin, changed[i], NormStr(existing.f[changed[i]]),
                       NormStr(v.f[changed[i]]), task_id)]

\* Lines 738-743: the price history entry of an existing vehicle.
PriceEntries(existing, v) ==
    IF StrOrEmpty(existing.f["price"]) # StrOrEmpty(v.f["price"])
    THEN << [vin |-> v.vin, price |-> v.f["price"]] >>
    ELSE << >>

\* Variant of ReactivatedEntries: the activity test is inverted.
ReactivatedEntries_Inverted(existing, v, task_id) ==
    IF existing.is_active
    THEN << [vin |-> v.vin, change_type |-> "reactivated", field_name |-> "is_active",
             old_value |-> "False", new_value |-> "True", task_id |-> task_id] >>
    ELSE << >>

\* Lines 746-751.
ReactivatedEntries(existing, v, task_id) ==
    IF ~existing.is_active
    THEN << [vin |-> v.vin, change_type |-> "reactivated", field_name |-> "is_active",
             old_value |-> "False", new_value |-> "True", task_id |-> task_id] >>
    ELSE << >>

\* Lines 720-765: the fresh record matches a row of the session.
UpsertExisting(s, i, v, task_id) ==
    LET existing == s.rows[i]
    IN [s EXCEPT
          !.cl = @ \o ChangedFields(existing, v, task_id)
                   \o ReactivatedEntries(existing, v, task_id),
          !.ph = @ \o PriceEntries(existing, v),
          !.rows[i] = [existing EXCEPT !.f = v.f, !.is_active = TRUE],
          !.vehicles_updated = @ + 1]

\* Variant of UpsertNew: the price history entry is appended whatever the
\* price.
UpsertNew_AlwaysPrice(s, v, task_id) ==
    [s EXCEPT
       !.rows = Append(@, [vin |-> v.vin, f |-> v.f, is_active |-> TRUE]),
       !.cl = Append(@, [vin |-> v.vin, change_type |-> "new", field_name |-> "None",
                         old_value |-> "None", new_value |-> "None",
                         task_id |-> task_id]),
       !.ph = Append(@, [vin |-> v.vin, price |-> v.f["price"]]),
       !.vehicles_new = @ + 1]

\* Lines 766-797: no row has the VIN.
UpsertNew(s, v, task_id) ==
    [s EXCEPT
       !.rows = Append(@, [vin |-> v.vin, f |-> v.f, is_active |-> TRUE]),
       !.cl = Append(@, [vin |-> v.vin, change_type |-> "new", field_name |-> "None",
                         old_value |-> "None", new_value |-> "None",
                         task_id |-> task_id]),
       !.ph = IF v.f["price"] # None
              THEN Append(@, [vin |-> v.vin, price |-> v.f["price"]]) ELSE @,
       !.vehicles_new = @ + 1]

\* Lines 709-797: one pass of the loop body.  scalar_one_or_none raises when
\* more than one row has the VIN.
UpsertOne(s, v, task_id) ==
    LET found == SelectVehicle(s.rows, v.vin)
        s1    == [s EXCEPT !.scraped_vins = @ \cup {v.vin}]
    IN IF Cardinality(found) > 1 THEN [s1 EXCEPT !.raised = TRUE]
       ELSE IF found # {} THEN UpsertExisting(s1, CHOOSE i \in found : TRUE, v, task_id)
       ELSE UpsertNew(s1, v, task_id)

RECURSIVE UpsertLoop(_, _, _)
UpsertLoop(s, all_vehicles, task_id) ==
    IF all_vehicles = << >> \/ s.raised THEN s
    ELSE UpsertLoop(UpsertOne(s, Head(all_vehicles), task_id), Tail(all_vehicles), task_id)

\* Variant of MarkRemoved: the pass is not restricted to active rows.
MarkRemoved_AllRows(s, task_id) ==
    LET gone(i) == s.rows[i].vin \notin s.scraped_vins
        absent  == SelectSeq([i \in 1..Len(s.rows) |-> [vin |-> s.rows[i].vin,
                                                          gone |-> gone(i)]],
                             LAMBDA e : e.gone)
    IN [s EXCEPT
          !.rows = [i \in 1..Len(s.rows) |->
                      IF gone(i) THEN [s.rows[i] EXCEPT !.is_active = FALSE]
                      ELSE s.rows[i]],
          !.cl = @ \o [k \in 1..Len(absent) |->
                         [vin |-> absent[k].vin, change_type |-> "removed",
                          field_name |-> "is_active", old_value |-> "True",
                          new_value |-> "False", task_id |-> task_id]],
          !.vehicles_removed = Len(absent)]

\* Variant of MarkRemoved: the rows whose VIN was not scraped are deleted.
MarkRemoved_Deletes(s, task_id) ==
    LET removed == SelectSeq(s.rows, LAMBDA row : row.is_active
                                                      /\ row.vin \notin s.scraped_vins)
    IN [s EXCEPT
          !.rows = SelectSeq(s.rows, LAMBDA row : ~(row.is_active
                                                    /\ row.vin \notin s.scraped_vins)),
          !.cl = @ \o [k \in 1..Len(removed) |->
                         [vin |-> removed[k].vin, change_type |-> "removed",
                          field_name |-> "is_active", old_value |-> "True",
                          new_value |-> "False", task_id |-> task_id]],
          !.vehicles_removed = Len(removed)]

\* Lines 799-812: every active row whose VIN was not scraped becomes
\* inactive and gets a "removed" entry, in table order.
MarkRemoved(s, task_id) ==
    LET gone(i) == s.rows[i].is_active /\ s.rows[i].vin \notin s.scraped_vins
        removed == SelectSeq([i \in 1..Len(s.rows) |-> [vin |-> s.rows[i].vin,
                                                          gone |-> gone(i)]],
                             LAMBDA e : e.gone)
    IN [s EXCEPT
          !.rows = [i \in 1..Len(s.rows) |->
                      IF gone(i) THEN [s.rows[i] EXCEPT !.is_active = FALSE]
                      ELSE s.rows[i]],
          !.cl = @ \o [k \in 1..Len(removed) |->
                         [vin |-> removed[k].vin, change_type |-> "removed",
                          field_name |-> "is_active", old_value |-> "True",
                          new_value |-> "False", task_id |-> task_id]],
          !.vehicles_removed = Len(removed)]

\* Lines 706-812: the session of step 3 up to the commit.
Reconcile(rows, all_vehicles, task_id) ==
    LET s0 == [rows |-> rows, cl |-> << >>, ph |-> << >>, scraped_vins |-> {},
               vehicles_new |-> 0, vehicles_updated |-> 0, vehicles_removed |-> 0,
               raised |-> FALSE, log_task_id |-> task_id]
        s1 == UpsertLoop(s0, all_vehicles, task_id)
    IN IF s1.raised THEN s1 ELSE MarkRemoved(s1, task_id)

\* The rows as the next process reads them after the commit.
Persist(rows) ==
    [i \in 1..Len(rows) |->
        [rows[i] EXCEPT !.f = [n \in FieldNames |-> Stored(rows[i].f[n])]]]

PersistPrices(ph) == [i \in 1..Len(ph) |-> [ph[i] EXCEPT !.price = Stored(ph[i].price)]]

ActiveVins(rows) == {rows[i].vin : i \in {j \in 1..Len(rows) : rows[j].is_active}}
KnownVins(rows)  == {rows[i].vin : i \in 1..Len(rows)}

\* VINs listed on any page of the remote site, with a readable detail page.
RemoteVins(site) ==
    UNION {{site.detail[site.pages[p][k]].vin : k \in 1..Len(site.pages[p])} :
              p \in 1..Len(site.pages)} \ {""}

\* VINs listed on the pages of the remote site after page n.
RemoteVinsBeyond(site, n) ==
    UNION {{site.detail[site.pages[p][k]].vin : k \in 1..Len(site.pages[p])} :
              p \in (n + 1)..Len(site.pages)} \ {""}

VinsOf(all_vehicles) == {all_vehicles[i].vin : i \in 1..Len(all_vehicles)}

\* main, lines 599-678: the listing crawl and the detail loop of one
\* execution against a site.
Crawl(site, max_pages) ==
    LET listings == get_all_listing_vehicles(site.pages, max_pages).listings
        details  == DetailLoop(site, listings)
    IN [listings |-> listings,
        pages |-> [i \in 1..Len(listings) |-> site.detail[listings[i]]],
        all_vehicles |-> details.all_vehicles, errors |-> details.errors]

\* The crawl of an execution that built no snapshot.
NoCrawl == [listings |-> << >>, pages |-> << >>, all_vehicles |-> << >>, errors |-> << >>]

\* What is kept of one execution of main: the stubs its listing crawl
\* yielded and the detail page met behind each, the fresh snapshot it built, the state of the catalog it started
\* from (rows, length of the two logs), the columns its ScrapeLog row ended
\* with (task_id, status, counters, errors) and the part of the audit trail it
\* appended.  The row keeps its column defaults unless main reaches lines
\* 829-837.  raised tells that step 3 was left by an exception; seed marks
\* the runs that precede the explored ones.
RunEntry(crawl, status, s, rows, ncl, nph, seed) ==
    [stubs |-> crawl.listings, pages |-> crawl.pages, fresh |-> crawl.all_vehicles,
     status |-> status, seed |-> seed, raised |-> s.raised,
     task_id |-> IF status = COMPLETED THEN s.log_task_id ELSE NoTask,
     active_before |-> ActiveVins(rows), known_before |-> KnownVins(rows),
     cl_from |-> ncl, cl_to |-> ncl + Len(s.cl),
     ph_from |-> nph, ph_to |-> nph + Len(s.ph),
     vehicles_found |-> IF status = COMPLETED THEN Len(crawl.all_vehicles) ELSE 0,
     errors |-> IF status = COMPLETED THEN crawl.errors ELSE << >>,
     vehicles_new |-> s.vehicles_new, vehicles_updated |-> s.vehicles_updated,
     vehicles_removed |-> s.vehicles_removed]

NoSession(rows) ==
    [rows |-> rows, cl |-> << >>, ph |-> << >>, scraped_vins |-> {},
     vehicles_new |-> 0, vehicles_updated |-> 0, vehicles_removed |-> 0,
     raised |-> FALSE, log_task_id |-> NoTask]

\* The session of a step 3 that an exception left: nothing of it is kept.
RaisedSession(rows) == [NoSession(rows) EXCEPT !.raised = TRUE]

\* Number of explored executions of main.
RunCount == Cardinality({k \in 1..Len(runs) : ~runs[k].seed})

\* main, lines 599-610: the listing is empty; main returns before step 3 and
\* writes neither the catalog nor the ScrapeLog row.
main_no_vehicles(site, max_pages) ==
    /\ RunCount < MaxRuns
    /\ get_all_listing_vehicles(site.pages, max_pages).listings = << >>
    /\ runs' = Append(runs, RunEntry(NoCrawl, RUNNING, NoSession(vehicles), vehicles,
                                     Len(change_log), Len(price_history), FALSE))
    /\ UNCHANGED <<vehicles, change_log, price_history>>

\* main, lines 599-866: crawl, detail pages, step 3 and the commit.  When
\* step 3 raises, nothing is committed and the fallback marks the run FAILED.
main_reconcile(site, max_pages) ==
    /\ RunCount < MaxRuns
    /\ \E crawl \in {Crawl(site, max_pages)} :
         /\ crawl.listings # << >>
         /\ \E s \in {Reconcile(vehicles, crawl.all_vehicles, Len(runs) + 1)} :
              IF s.raised
              THEN /\ runs' = Append(runs, RunEntry(crawl, FAILED, RaisedSession(vehicles),
                                                    vehicles, Len(change_log),
                                                    Len(price_history), FALSE))
                   /\ UNCHANGED <<vehicles, change_log, price_history>>
              ELSE /\ vehicles' = Persist(s.rows)
                   /\ change_log' = change_log \o s.cl
                   /\ price_history' = price_history \o PersistPrices(s.ph)
                   /\ runs' = Append(runs, RunEntry(crawl, COMPLETED, s, vehicles,
                                                    Len(change_log),
                                                    Len(price_history), FALSE))

\* Lines 851-863: the task_id of the ScrapeLog row that a run started
\* without --task-id adds, "manual-<time>"; no other row carries it.
ManualTaskId(n) == 0 - n

\* main started from the command line without --task-id (lines 895-903):
\* task_id is None in every change log entry of step 3 (lines 734, 750, 790,
\* 810) and the run adds its own ScrapeLog row (lines 851-863).
main_manual(site, max_pages) ==
    /\ RunCount < MaxRuns
    /\ \E crawl \in {Crawl(site, max_pages)} :
         /\ crawl.listings # << >>
         /\ \E s \in {Reconcile(vehicles, crawl.all_vehicles, NoTask)} :
              /\ ~s.raised
              /\ vehicles' = Persist(s.rows)
              /\ change_log' = change_log \o s.cl
              /\ price_history' = price_history \o PersistPrices(s.ph)
              /\ runs' = Append(runs,
                                RunEntry(crawl, COMPLETED,
                                         [s EXCEPT !.log_task_id = ManualTaskId(Len(runs) + 1)],
                                         vehicles, Len(change_log),
                                         Len(price_history), FALSE))

\* Executions of main explored with faults.
MaxFaultRuns == 2

\* main, lines 599 and 138: navigate gives up on a listing page after its
\* retries and raises; nothing catches the exception inside main (lines
\* 592-688 are a try/finally), so it leaves main before step 3 and the
\* fallback of lines 904-935 marks the run FAILED.
main_listing_unreachable ==
    /\ RunCount < MaxFaultRuns
    /\ runs' = Append(runs, RunEntry(NoCrawl, FAILED, NoSession(vehicles), vehicles,
                                     Len(change_log), Len(price_history), FALSE))
    /\ UNCHANGED <<vehicles, change_log, price_history>>

\* Variant of Uncommitted: the rows flushed before the exception stay.
Uncommitted_RowsKept(rows, cl, ph, s) ==
    [rows |-> Persist(s.rows), cl |-> cl, ph |-> ph]

\* Lines 706 and 865: the session is left without reaching its one commit;
\* what it flushed is rolled back and the tables are as before the run.
Uncommitted(rows, cl, ph, s) == [rows |-> rows, cl |-> cl, ph |-> ph]

\* The crawls main may have made when it enters step 3: those of the
\* explored sites and page limits that yield a fresh snapshot.
FaultyCrawls ==
    {crawl \in {Crawl(site, max_pages) : site \in FaultySites, max_pages \in 0..MaxPages} :
        crawl.all_vehicles # << >>}

\* main, lines 706-812: a datastore error is raised in the upsert loop after
\* done records of the fresh snapshot were processed; the exception leaves
\* main and the fallback of lines 904-935 marks the run FAILED.
main_upsert_crash(crawl, done) ==
    /\ RunCount < MaxFaultRuns
    /\ done < Len(crawl.all_vehicles)
    /\ \E s \in {UpsertLoop(NoSession(vehicles),
                            SubSeq(crawl.all_vehicles, 1, done), Len(runs) + 1)} :
       \E db \in {Uncommitted(vehicles, change_log, price_history, s)} :
         /\ vehicles' = db.rows
         /\ change_log' = db.cl
         /\ price_history' = db.ph
         /\ runs' = Append(runs, RunEntry(crawl, FAILED, RaisedSession(vehicles),
                                          vehicles, Len(change_log),
                                          Len(price_history), FALSE))

(***************************************************************************)
(* app/tasks.py: run_scrape, the reconcile path of the Celery task         *)
(***************************************************************************)

\* Python's new_val != old_val on column values.  A float and the Decimal a
\* Numeric column returns are equal when they are the same number: cents
\* that are no multiple of a quarter have no exact float.
PyNe(new_val, old_val) ==
    IF {new_val.t, old_val.t} = {"float", "decimal"}
    THEN new_val.c # old_val.c \/ new_val.c % 25 # 0
    ELSE new_val # old_val

\* Lines 137-153: an existing row takes the fresh values that are not None
\* and differ from its own; only a row that took one is touched further:
\* updated_at, is_active and the counter.  (The photos of the explored
\* records are the empty list on both sides.)
SyncExisting(s, i, v_data) ==
    LET existing == s.rows[i]
        takes(field) == v_data.f[field] # None /\ PyNe(v_data.f[field], existing.f[field])
        changed == \E field \in FieldNames : takes(field)
    IN IF changed
       THEN [s EXCEPT
               !.rows[i] = [existing EXCEPT
                              !.f = [field \in FieldNames |->
                                       IF takes(field) THEN v_data.f[field]
                                       ELSE existing.f[field]],
                              !.is_active = TRUE],
               !.vehicles_updated = @ + 1]
       ELSE s

\* Lines 154-177: no row has the VIN.
SyncNew(s, v_data) ==
    [s EXCEPT
       !.rows = Append(@, [vin |-> v_data.vin, f |-> v_data.f, is_active |-> TRUE]),
       !.vehicles_new = @ + 1]

\* Lines 127-177: one pass of the loop body.
SyncOne(s, v_data) ==
    LET found == SelectVehicle(s.rows, v_data.vin)
        s1    == [s EXCEPT !.scraped_vins = @ \cup {v_data.vin}]
    IN IF Cardinality(found) > 1 THEN [s1 EXCEPT !.raised = TRUE]
       ELSE IF found # {} THEN SyncExisting(s1, CHOOSE i \in found : TRUE, v_data)
       ELSE SyncNew(s1, v_data)

RECURSIVE SyncLoop(_, _)
SyncLoop(s, all_vehicles) ==
    IF all_vehicles = << >> \/ s.raised THEN s
    ELSE SyncLoop(SyncOne(s, Head(all_vehicles)), Tail(all_vehicles))

\* Lines 179-189: unless nothing was scraped, every active row whose VIN was
\* not scraped becomes inactive.
SyncRemoved(s) ==
    LET gone(i) == s.rows[i].is_active /\ s.rows[i].vin \notin s.scraped_vins
    IN IF s.scraped_vins = {} THEN s
       ELSE [s EXCEPT
               !.rows = [i \in 1..Len(s.rows) |->
                           IF gone(i) THEN [s.rows[i] EXCEPT !.is_active = FALSE]
                           ELSE s.rows[i]],
               !.vehicles_removed = Cardinality({i \in 1..Len(s.rows) : gone(i)})]

\* The fresh snapshots scrape_inventory may return: those of the explored
\* sites.
Snapshots == {Crawl(site, 0).all_vehicles : site \in Sites}

\* run_scrape, lines 72-260: the task scrapes, syncs the snapshot to the
\* vehicles table, commits and completes its ScrapeLog row.  It writes no
\* change log and no price history.
run_scrape(all_vehicles) ==
    /\ RunCount < MaxRuns
    /\ \E s \in {SyncRemoved(SyncLoop(NoSession(vehicles), all_vehicles))} :
         /\ ~s.raised
         /\ vehicles' = Persist(s.rows)
         /\ runs' = Append(runs, RunEntry([NoCrawl EXCEPT !.all_vehicles = all_vehicles],
                                          COMPLETED, s, vehicles, Len(change_log),
                                          Len(price_history), FALSE))
    /\ UNCHANGED <<change_log, price_history>>

(***************************************************************************)
(* routers/monitor.py: the drift check                                     *)
(***************************************************************************)

\* _quick_website_check, lines 230-237: the VIN is read off the detail URL.
UrlVin(url) == IF url = "u1" THEN "VIN1" ELSE "VIN2"

RECURSIVE QuickPage(_, _)
\* Lines 229-252: the links of one page, skipping the VINs already seen.
QuickPage(all_vehicles, detail_urls) ==
    IF detail_urls = << >> THEN all_vehicles
    ELSE LET vin == UrlVin(Head(detail_urls))
             seen_vins == {all_vehicles[i].vin : i \in 1..Len(all_vehicles)}
         IN QuickPage(IF vin \in seen_vins THEN all_vehicles
                      ELSE Append(all_vehicles, [vin |-> vin, detail_url |-> Head(detail_urls)]),
                      Tail(detail_urls))

RECURSIVE QuickLoop(_, _, _, _)
\* Lines 165-274: the page loop.  It ends at a page without links, at a page
\* without a new VIN, at the last page and past the page limit.
QuickLoop(pages, max_pages, page_num, all_vehicles) ==
    LET pg  == get_listing_vehicles_page(pages, page_num)
        acc == QuickPage(all_vehicles, pg.listings)
    IN IF pg.listings = << >> THEN all_vehicles
       ELSE IF Len(acc) = Len(all_vehicles) THEN acc
       ELSE IF ~pg.has_next THEN acc
       ELSE IF max_pages # 0 /\ page_num + 1 > max_pages THEN acc
       ELSE QuickLoop(pages, max_pages, page_num + 1, acc)

\* _quick_website_check(max_pages): the vehicles the listing pages link to.
_quick_website_check(site, max_pages) == QuickLoop(site.pages, max_pages, 1, << >>)

RECURSIVE QuickLoopFailing(_, _, _, _, _)
\* Lines 165-278: the page loop when the fetch of page fail_page raises: the
\* handler of line 276 logs the error and breaks, and what was read so far is
\* the result.  failed tells whether the loop got to that page.
QuickLoopFailing(pages, max_pages, page_num, all_vehicles, fail_page) ==
    LET pg  == get_listing_vehicles_page(pages, page_num)
        acc == QuickPage(all_vehicles, pg.listings)
        end(result) == [all_vehicles |-> result, failed |-> FALSE]
    IN IF page_num = fail_page THEN [all_vehicles |-> all_vehicles, failed |-> TRUE]
       ELSE IF pg.listings = << >> THEN end(all_vehicles)
       ELSE IF Len(acc) = Len(all_vehicles) THEN end(acc)
       ELSE IF ~pg.has_next THEN end(acc)
       ELSE IF max_pages # 0 /\ page_num + 1 > max_pages THEN end(acc)
       ELSE QuickLoopFailing(pages, max_pages, page_num + 1, acc, fail_page)

\* _quick_website_check(max_pages) when the scan fails: the browser cannot
\* be launched (fail_page 0, lines 280-281: nothing was read) or the fetch
\* of page fail_page raises.
_quick_website_check_failing(site, max_pages, fail_page) ==
    IF fail_page = 0 THEN [all_vehicles |-> << >>, failed |-> TRUE]
    ELSE QuickLoopFailing(site.pages, max_pages, 1, << >>, fail_page)

\* sorted(...) of a set of VINs.
VinOrder == <<"VIN1", "VIN2">>
sorted(S) == SelectSeq(VinOrder, LAMBDA vin : vin \in S)

\* One InventoryComparisonVehicle per VIN of a sorted set.
Tagged(S, status) == [i \in 1..Len(sorted(S)) |-> [vin |-> sorted(S)[i], status |-> status]]

\* Variant of _compare_inventory: the local side is every row of the
\* catalog, active or not.
_compare_inventory_AllRows(website_vehicles, rows) ==
    LET website_vins == {website_vehicles[i].vin : i \in 1..Len(website_vehicles)}
        local_vins   == KnownVins(rows)
    IN [website_count |-> Len(website_vehicles),
        local_count |-> Cardinality(local_vins),
        matched |-> Len(Tagged(website_vins \cap local_vins, "match")),
        missing_locally |-> Cardinality(website_vins \ local_vins),
        extra_locally |-> Cardinality(local_vins \ website_vins),
        changed |-> 0,
        vehicles |-> Tagged(website_vins \cap local_vins, "match")
                     \o Tagged(website_vins \ local_vins, "missing_local")
                     \o Tagged(local_vins \ website_vins, "missing_remote")]

\* _compare_inventory, lines 322-384: the scan result against the active
\* rows of the catalog.
_compare_inventory(website_vehicles, rows) ==
    LET website_vins == {website_vehicles[i].vin : i \in 1..Len(website_vehicles)}
        local_vins   == ActiveVins(rows)
    IN [website_count |-> Len(website_vehicles),
        local_count |-> Cardinality(local_vins),
        matched |-> Len(Tagged(website_vins \cap local_vins, "match")),
        missing_locally |-> Cardinality(website_vins \ local_vins),
        extra_locally |-> Cardinality(local_vins \ website_vins),
        changed |-> 0,
        vehicles |-> Tagged(website_vins \cap local_vins, "match")
                     \o Tagged(website_vins \ local_vins, "missing_local")
                     \o Tagged(local_vins \ website_vins, "missing_remote")]

\* Variant of _compare_inventory_rows: the drift check marks the rows it
\* read inactive.
_compare_inventory_rows_Deactivates(rows) ==
    [i \in 1..Len(rows) |-> [rows[i] EXCEPT !.is_active = FALSE]]

\* _compare_inventory, lines 323-327: the session of the drift check
\* executes one SELECT on the vehicles table and is closed without a
\* commit; the table is what it was.
_compare_inventory_rows(rows) == rows

\* No drift check has been made in the current cycle.
NoComparison == [website_count |-> 0, local_count |-> 0, matched |-> 0,
                 missing_locally |-> 0, extra_locally |-> 0, changed |-> 0,
                 vehicles |-> << >>]

(***************************************************************************)
(* routers/monitor.py: _monitor_loop, update_monitor_config                *)
(***************************************************************************)

\* The loop task at the top of its while loop, no cycle in progress.  The
\* locals of a finished cycle are dead: each is assigned again before it is
\* read.  cancel: a cancellation was requested and is not delivered yet;
\* cancelled: CancelledError was raised in the task; sleep: seconds of the
\* asyncio.sleep in progress.
LoopTop ==
    [pc |-> "idle", task |-> NoTask, cancel |-> FALSE, cancelled |-> FALSE,
     website_vehicles |-> << >>, comparison |-> NoComparison,
     interval |-> 0, pages |-> 0, sleep |-> 0]

\* Python's max of two integers.
max(a, b) == IF a >= b THEN a ELSE b

\* Lines 415-419: the summary stored as last_check_result.
Summary(comparison) ==
    <<comparison.website_count, comparison.local_count, comparison.matched,
      comparison.missing_locally, comparison.extra_locally, comparison.changed>>

\* Variant of needs_scrape: only vehicles missing locally count as drift.
needs_scrape_MissingOnly(comparison) == comparison.missing_locally > 0

\* Line 430.
needs_scrape(comparison) ==
    \/ comparison.missing_locally > 0
    \/ comparison.extra_locally > 0
    \/ comparison.changed > 0

\* Variant of _monitor_loop_config: the cycle goes on to the drift check
\* whether the monitor is enabled or not.
_monitor_loop_config_IgnoresEnabled ==
    /\ mon.pc = "idle"
    /\ mon' = [mon EXCEPT !.pc = "checking",
                          !.interval = max(monitor_config.interval_minutes, 5),
                          !.pages = monitor_config.pages_to_scrape]
    /\ UNCHANGED <<scrape_logs, _running_pids, alive, req, next_task, progress,
                   monitor_config, system_logs, _monitor_task, nav>>

\* Lines 395-411: the configuration is read; a disabled monitor sleeps 15
\* seconds, an enabled one fixes the interval and the page limit of the cycle.
_monitor_loop_config ==
    /\ mon.pc = "idle"
    /\ mon' = IF ~monitor_config.enabled
              THEN [mon EXCEPT !.pc = "disabled", !.sleep = 15]
              ELSE [mon EXCEPT !.pc = "checking",
                               !.interval = max(monitor_config.interval_minutes, 5),
                               !.pages = monitor_config.pages_to_scrape]
    /\ UNCHANGED <<scrape_logs, _running_pids, alive, req, next_task, progress,
                   monitor_config, system_logs, _monitor_task, nav>>

\* Lines 403-405: the 15-second sleep ends.
_monitor_loop_disabled ==
    /\ mon.pc = "disabled"
    /\ mon' = [mon EXCEPT !.pc = "idle", !.sleep = 0]
    /\ UNCHANGED <<scrape_logs, _running_pids, alive, req, next_task, progress,
                   monitor_config, system_logs, _monitor_task, nav>>

\* Lines 413-430 and 462-466: one drift check against the remote site; the
\* last-check fields are written; without drift the interval sleep begins.
_monitor_loop_check(site) ==
    /\ mon.pc = "checking"
    /\ \E website_vehicles \in {_quick_website_check(site, mon.pages)} :
       \E comparison \in {_compare_inventory(website_vehicles, vehicles)} :
         /\ monitor_config' = [monitor_config EXCEPT
                                  !.last_check_result = Summary(comparison)]
         /\ mon' = IF needs_scrape(comparison)
                   THEN [mon EXCEPT !.pc = "triggering",
                                    !.website_vehicles = website_vehicles,
                                    !.comparison = comparison]
                   ELSE [mon EXCEPT !.pc = "sleeping",
                                    !.website_vehicles = website_vehicles,
                                    !.comparison = comparison,
                                    !.sleep = mon.interval * 60]
    /\ UNCHANGED <<scrape_logs, _running_pids, alive, req, next_task, progress,
                   system_logs, _monitor_task, nav>>

\* Lines 413-430 and 462-466 when the remote scan of the drift check fails:
\* _quick_website_check returns what it read, and the cycle goes on with the
\* comparison as after a complete scan.
_monitor_loop_check_failed(site, fail_page) ==
    /\ mon.pc = "checking"
    /\ \E scan \in {_quick_website_check_failing(site, mon.pages, fail_page)} :
       \E comparison \in {_compare_inventory(scan.all_vehicles, vehicles)} :
         /\ scan.failed
         /\ monitor_config' = [monitor_config EXCEPT
                                  !.last_check_result = Summary(comparison)]
         /\ mon' = IF needs_scrape(comparison)
                   THEN [mon EXCEPT !.pc = "triggering",
                                    !.website_vehicles = scan.all_vehicles,
                                    !.comparison = comparison]
                   ELSE [mon EXCEPT !.pc = "sleeping",
                                    !.website_vehicles = scan.all_vehicles,
                                    !.comparison = comparison,
                                    !.sleep = mon.interval * 60]
    /\ UNCHANGED <<scrape_logs, _running_pids, alive, req, next_task, progress,
                   system_logs, _monitor_task, nav>>

\* Lines 439-445: the auto ScrapeLog row is added and committed.
_monitor_loop_addlog ==
    /\ mon.pc = "triggering"
    /\ next_task < MaxTasks
    /\ LET task_id == next_task + 1
       IN /\ next_task' = task_id
          /\ scrape_logs' = Append(scrape_logs, [task_id |-> task_id, status |-> RUNNING,
                                                 origin |-> "auto"])
          /\ mon' = [mon EXCEPT !.pc = "popen", !.task = task_id]
    /\ UNCHANGED <<_running_pids, alive, req, progress,
                   monitor_config, system_logs, _monitor_task, nav>>

\* Lines 447-466: the progress file is written and the subprocess started;
\* its pid is not recorded.  The interval sleep begins.
_monitor_loop_popen ==
    /\ mon.pc = "popen"
    /\ alive' = alive \cup {mon.task}
    /\ progress' = [progress EXCEPT ![mon.task] = RUNNING]
    /\ mon' = [mon EXCEPT !.pc = "sleeping", !.sleep = mon.interval * 60]
    /\ UNCHANGED <<scrape_logs, _running_pids, req, next_task,
                   monitor_config, system_logs, _monitor_task, nav>>

\* Line 466: the interval sleep ends and the next cycle begins.
_monitor_loop_sleep ==
    /\ mon.pc = "sleeping"
    /\ mon' = [LoopTop EXCEPT !.cancel = mon.cancel]
    /\ UNCHANGED <<scrape_logs, _running_pids, alive, req, next_task, progress,
                   monitor_config, system_logs, _monitor_task, nav>>

\* Lines 394-466: a statement of the try block raises an exception (the
\* datastore, the drift check, the launch); control passes to line 471.
_monitor_loop_raise ==
    /\ mon.pc \in {"idle", "checking", "triggering"}
    /\ mon' = [mon EXCEPT !.pc = "error"]
    /\ UNCHANGED <<scrape_logs, _running_pids, alive, req, next_task, progress,
                   monitor_config, system_logs, _monitor_task, nav>>

\* Lines 471-473: the handler writes the error log and begins the 60-second
\* back-off.  When _write_log itself raises (lines 86-91), the exception
\* leaves the handler and the coroutine: the task is done.
_monitor_loop_error(written) ==
    /\ mon.pc = "error"
    /\ IF written
       THEN /\ system_logs' = system_logs \cup {"Monitor error"}
            /\ mon' = [mon EXCEPT !.pc = "backoff", !.sleep = 60]
       ELSE /\ mon' = [mon EXCEPT !.pc = "ended", !.sleep = 0]
            /\ UNCHANGED system_logs
    /\ UNCHANGED <<scrape_logs, _running_pids, alive, req, next_task, progress,
                   monitor_config, _monitor_task, nav>>

\* Line 473: the back-off ends and the next cycle begins.
_monitor_loop_backoff ==
    /\ mon.pc = "backoff"
    /\ mon' = [LoopTop EXCEPT !.cancel = mon.cancel]
    /\ UNCHANGED <<scrape_logs, _running_pids, alive, req, next_task, progress,
                   monitor_config, system_logs, _monitor_task, nav>>

\* The requested cancellation is delivered at the await the task is
\* suspended in.  Inside the try block (lines 394-466) CancelledError is
\* caught at line 468; in the handler of line 471 (the error log, the
\* back-off sleep) nothing catches it and the task is done.
_monitor_loop_cancelled ==
    /\ mon.cancel
    /\ mon.pc \in {"idle", "disabled", "checking", "triggering", "sleeping",
                   "error", "backoff"}
    /\ mon' = [mon EXCEPT !.cancel = FALSE, !.cancelled = TRUE, !.sleep = 0,
                          !.pc = IF mon.pc \in {"error", "backoff"}
                                 THEN "ended" ELSE "stopping"]
    /\ UNCHANGED <<scrape_logs, _running_pids, alive, req, next_task, progress,
                   monitor_config, system_logs, _monitor_task, nav>>

\* Lines 468-470: the stop log is written and the coroutine returns.
_monitor_loop_stopped ==
    /\ mon.pc = "stopping"
    /\ system_logs' = system_logs \cup {"Monitor stopped"}
    /\ mon' = [mon EXCEPT !.pc = "ended"]
    /\ UNCHANGED <<scrape_logs, _running_pids, alive, req, next_task, progress,
                   monitor_config, _monitor_task, nav>>

\* MonitorConfigUpdate bodies explored (schemas.py: interval_minutes >= 5).
\* supplied holds the names of the fields that are not None.
Bodies ==
    {body \in {[supplied |-> S, enabled |-> e, interval_minutes |-> 5,
                pages_to_scrape |-> 1] :
                  S \in SUBSET {"enabled", "interval_minutes", "pages_to_scrape"},
                  e \in BOOLEAN} :
        "enabled" \notin body.supplied => ~body.enabled}

\* task.done()
TaskDone(task) == task.pc = "ended"

\* Variant of update_monitor_config: the three fields are set from the body
\* whether it supplies them or not.
update_monitor_config_AllFields(body) ==
    /\ _monitor_task = "None" => TaskDone(mon)
    /\ \E config \in {[monitor_config EXCEPT
                          !.enabled = body.enabled,
                          !.interval_minutes = body.interval_minutes,
                          !.pages_to_scrape = body.pages_to_scrape]} :
         /\ monitor_config' = config
         /\ IF config.enabled
            THEN IF _monitor_task = "None" \/ TaskDone(mon)
                 THEN /\ mon' = LoopTop
                      /\ _monitor_task' = "task"
                 ELSE UNCHANGED <<mon, _monitor_task>>
            ELSE IF _monitor_task # "None" /\ ~TaskDone(mon)
                 THEN /\ mon' = [mon EXCEPT !.cancel = TRUE]
                      /\ _monitor_task' = "None"
                 ELSE UNCHANGED <<mon, _monitor_task>>
    /\ UNCHANGED <<scrape_logs, _running_pids, alive, req, next_task, progress,
                   system_logs, nav>>

\* update_monitor_config, lines 492-525.  The supplied fields are set; an
\* enabled monitor without a running task gets a new one, a disabled one has
\* its running task cancelled and the handle dropped.  Explored while no
\* task whose handle was dropped is still running.
update_monitor_config(body) ==
    /\ _monitor_task = "None" => TaskDone(mon)
    /\ \E config \in {[monitor_config EXCEPT
                          !.enabled = IF "enabled" \in body.supplied
                                      THEN body.enabled ELSE @,
                          !.interval_minutes = IF "interval_minutes" \in body.supplied
                                               THEN body.interval_minutes ELSE @,
                          !.pages_to_scrape = IF "pages_to_scrape" \in body.supplied
                                              THEN body.pages_to_scrape ELSE @]} :
         /\ monitor_config' = config
         /\ IF config.enabled
            THEN IF _monitor_task = "None" \/ TaskDone(mon)
                 THEN /\ mon' = LoopTop
                      /\ _monitor_task' = "task"
                 ELSE UNCHANGED <<mon, _monitor_task>>
            ELSE IF _monitor_task # "None" /\ ~TaskDone(mon)
                 THEN /\ mon' = [mon EXCEPT !.cancel = TRUE]
                      /\ _monitor_task' = "None"
                 ELSE UNCHANGED <<mon, _monitor_task>>
    /\ UNCHANGED <<scrape_logs, _running_pids, alive, req, next_task, progress,
                   system_logs, nav>>

\* Largest number of loop tasks explored whose handle was dropped before
\* they were done.
MaxOrphans == 2

\* update_monitor_config, lines 492-525, whatever the state of the task
\* whose handle was dropped: create_task at line 516 leaves a task that is
\* not done running next to the new one.
update_monitor_config_task(body) ==
    /\ \E config \in {[monitor_config EXCEPT
                          !.enabled = IF "enabled" \in body.supplied
                                      THEN body.enabled ELSE @,
                          !.interval_minutes = IF "interval_minutes" \in body.supplied
                                               THEN body.interval_minutes ELSE @,
                          !.pages_to_scrape = IF "pages_to_scrape" \in body.supplied
                                              THEN body.pages_to_scrape ELSE @]} :
         /\ monitor_config' = config
         /\ IF config.enabled
            THEN IF _monitor_task = "None" \/ TaskDone(mon)
                 THEN /\ TaskDone(mon) \/ Len(orphans) < MaxOrphans
                      /\ orphans' = IF TaskDone(mon) THEN orphans ELSE Append(orphans, mon)
                      /\ mon' = LoopTop
                      /\ _monitor_task' = "task"
                 ELSE UNCHANGED <<mon, _monitor_task, orphans>>
            ELSE IF _monitor_task # "None" /\ ~TaskDone(mon)
                 THEN /\ mon' = [mon EXCEPT !.cancel = TRUE]
                      /\ _monitor_task' = "None"
                      /\ UNCHANGED orphans
                 ELSE UNCHANGED <<mon, _monitor_task, orphans>>
    /\ UNCHANGED <<scrape_logs, _running_pids, alive, req, next_task, progress,
                   system_logs, nav>>

\* The cancellation requested at line 521 is delivered to a task whose
\* handle was dropped (as in _monitor_loop_cancelled).
orphan_cancelled(i) ==
    /\ i \in 1..Len(orphans)
    /\ orphans[i].cancel
    /\ orphans' = [orphans EXCEPT
                     ![i] = [@ EXCEPT !.cancel = FALSE, !.cancelled = TRUE, !.sleep = 0,
                                      !.pc = IF orphans[i].pc \in {"error", "backoff"}
                                             THEN "ended" ELSE "stopping"]]
    /\ UNCHANGED <<scrape_logs, _running_pids, alive, req, mon, next_task, progress,
                   monitor_config, system_logs, _monitor_task, nav>>

\* Lines 468-470 in such a task: the stop log is written and the coroutine
\* returns; nothing refers to the task any more.
orphan_stopped(i) ==
    /\ i \in 1..Len(orphans)
    /\ orphans[i].pc = "stopping"
    /\ system_logs' = system_logs \cup {"Monitor stopped"}
    /\ orphans' = SubSeq(orphans, 1, i - 1) \o SubSeq(orphans, i + 1, Len(orphans))
    /\ UNCHANGED <<scrape_logs, _running_pids, alive, req, mon, next_task, progress,
                   monitor_config, _monitor_task, nav>>

\* main.lifespan, lines 66-68: at shutdown a running loop task is cancelled.
lifespan_shutdown ==
    /\ _monitor_task # "None" /\ ~TaskDone(mon)
    /\ ~mon.cancel
    /\ mon' = [mon EXCEPT !.cancel = TRUE]
    /\ UNCHANGED <<scrape_logs, _running_pids, alive, req, next_task, progress,
                   monitor_config, system_logs, _monitor_task, nav>>

(***************************************************************************)
(* parser.py, scrape_real.py: price and mileage texts                      *)
(***************************************************************************)

\* Longest price or mileage text explored.
MaxText == 3

\* A text is a sequence of characters; the explored ones are written with a
\* currency sign, a thousands separator, a decimal point and two digits.
Digits == {"0", "5"}
Chars  == {"$", ",", "."} \cup Digits
Texts  == UNION {[1..n -> Chars] : n \in 0..MaxText}

DigitValue(ch) == IF ch = "0" THEN 0 ELSE 5

\* re.sub(r"[^\d.]", "", text)
KeepDigitsAndPoint(text) == SelectSeq(text, LAMBDA ch : ch \in Digits \cup {"."})

\* re.sub(r"[^\d]", "", text)
KeepDigits(text) == SelectSeq(text, LAMBDA ch : ch \in Digits)

\* Positions of the decimal points of a text.
Points(text) == {i \in 1..Len(text) : text[i] = "."}

\* Number of characters after the first decimal point.
Decimals(text) ==
    IF Points(text) = {} THEN 0
    ELSE Len(text) - (CHOOSE i \in Points(text) : \A j \in Points(text) : i <= j)

\* The price texts explored: those whose number has at most two decimals,
\* so that its float is exact to the cent.
PriceTexts == {text \in Texts : Decimals(KeepDigitsAndPoint(text)) <= 2}

\* What float() and int() raise on a malformed literal.
ValueError == [t |-> "error", c |-> 0, s |-> "ValueError"]

RECURSIVE DigitsValue(_)
\* The number a string of digits denotes (0 for the empty string).
DigitsValue(digits) ==
    IF digits = << >> THEN 0
    ELSE 10 * DigitsValue(SubSeq(digits, 1, Len(digits) - 1))
         + DigitValue(digits[Len(digits)])

\* Python int(cleaned) of a string of digits: the empty string is malformed.
int(cleaned) ==
    IF cleaned = << >> THEN ValueError ELSE PyInt(DigitsValue(cleaned))

\* Python float(cleaned) of a string of digits and points: one point at
\* most and one digit at least ("5", "5.", ".5", "5.50"), else ValueError.
\* The value is kept in cents.
float(cleaned) ==
    IF Cardinality(Points(cleaned)) > 1 \/ KeepDigits(cleaned) = << >>
    THEN ValueError
    ELSE LET n     == Len(cleaned) - Decimals(cleaned)
             whole == IF Points(cleaned) = {} THEN cleaned ELSE SubSeq(cleaned, 1, n - 1)
             frac  == SubSeq(cleaned, n + 1, Len(cleaned))
         IN PyFloat(100 * DigitsValue(whole)
                    + (IF Len(frac) = 1 THEN 10 * DigitsValue(frac)
                       ELSE DigitsValue(frac)))

\* parser._parse_price, lines 279-288.
_parse_price(text) ==
    IF text = << >> THEN None
    ELSE LET cleaned == KeepDigitsAndPoint(text)
             price   == float(cleaned)
         IN IF price = ValueError THEN None
            ELSE IF price.c > 0 THEN price ELSE None

\* parser._parse_number, lines 291-299.
_parse_number(text) ==
    IF text = << >> THEN None
    ELSE LET cleaned == KeepDigits(text)
         IN IF cleaned # << >> THEN int(cleaned) ELSE None

\* build_vehicle_record, lines 378-389: record["price"] of a price text.
record_price(price_str) ==
    LET cleaned == KeepDigitsAndPoint(price_str)
    IN IF cleaned = << >> THEN None
       ELSE IF float(cleaned) = ValueError THEN None
       ELSE float(cleaned)

\* build_vehicle_record, lines 391-400: record["mileage"] of a mileage text.
record_mileage(mileage_str) ==
    LET cleaned == KeepDigits(mileage_str)
    IN IF cleaned # << >> THEN int(cleaned) ELSE None

\* A detail page that shows VIN1 with the given price and mileage texts.
TextPage(price_str, mileage_str) ==
    [vin |-> "VIN1", price_str |-> price_str, mileage_str |-> mileage_str,
     raises |-> FALSE]

\* build_vehicle_record of such a page: price and mileage are read off its
\* texts (build_vehicle_record above takes the price these lines yield as
\* given).
build_vehicle_record_text(o, detail_url) ==
    [vin |-> o.vin,
     f |-> [TheVehicle EXCEPT !["price"] = record_price(o.price_str),
                              !["mileage"] = record_mileage(o.mileage_str),
                              !["detail_url"] = Str(detail_url)]]

\* The pairs of texts explored: every price text next to one mileage, and
\* every mileage text next to one price.
TextInputs ==
    {<<price_str, <<"5">> >> : price_str \in PriceTexts}
        \cup {<< <<"$", "5">>, mileage_str>> : mileage_str \in Texts}

\* main, lines 599-866, against a site whose one listing page links to one
\* detail page showing the given texts: the record is built, step 3 runs and
\* commits.  One such execution is explored from each catalog.
main_text(price_str, mileage_str) ==
    /\ RunCount = 0
    /\ \E page \in {TextPage(price_str, mileage_str)} :
       \E crawl \in {[listings |-> <<"u1">>, pages |-> <<page>>,
                      all_vehicles |-> <<build_vehicle_record_text(page, "u1")>>,
                      errors |-> << >>]} :
       \E s \in {Reconcile(vehicles, crawl.all_vehicles, Len(runs) + 1)} :
         /\ ~s.raised
         /\ vehicles' = Persist(s.rows)
         /\ change_log' = change_log \o s.cl
         /\ price_history' = price_history \o PersistPrices(s.ph)
         /\ runs' = Append(runs, RunEntry(crawl, COMPLETED, s, vehicles,
                                          Len(change_log), Len(price_history), FALSE))

(***************************************************************************)
(* scrape_real.py build_vehicle_record: listing hint and detail page       *)
(***************************************************************************)

\* A JSON-LD vehicle object: the VIN it gives under
\* vehicleIdentificationNumber ("" when the key is missing) and the price of
\* its first offer (None when it has no offers).  Such an object has other
\* keys (@type, name, url), so it is truthy whatever these two are.
Ld(vin, price) == [present |-> TRUE, vin |-> vin, price |-> price]

\* No JSON-LD object: listing.get("json_ld") or detail_data["json_ld"] is None.
NoLd == [present |-> FALSE, vin |-> "", price |-> None]

\* The JSON-LD objects explored.  VINs are upper-case and stripped, so that
\* line 345 leaves them as they are.
LdValues ==
    {NoLd} \cup {Ld(vin, price) : vin \in {"", "VIN1", "VIN2"},
                                  price \in {None, PyFloat(100), PyFloat(199)}}

\* The specs table of a detail page: its "vin" and "price" rows.
SpecsValues == {[vin |-> vin, price |-> price] : vin \in {"", "VIN1"},
                                                price \in {None, PyFloat(100)}}

\* A stub with its hint and the detail page behind it.
MergePage(listing_ld, json_ld, specs) ==
    [listing_ld |-> listing_ld, json_ld |-> json_ld, specs |-> specs, raises |-> FALSE]

\* Line 335: jld = detail_data.get("json_ld") or listing_ld or {}.
jld_of(o) ==
    IF o.json_ld.present THEN o.json_ld
    ELSE IF o.listing_ld.present THEN o.listing_ld
    ELSE [present |-> FALSE, vin |-> "", price |-> None]

\* build_vehicle_record(listing_ld, detail_data), lines 334-389: VIN and
\* price are read off jld first and off the specs table second.
build_vehicle_record_merge(o, detail_url) ==
    LET jld == jld_of(o)
    IN [vin |-> IF jld.vin # "" THEN jld.vin ELSE o.specs.vin,
        f |-> [TheVehicle EXCEPT
                 !["price"] = IF jld.price # None THEN jld.price ELSE o.specs.price,
                 !["detail_url"] = Str(detail_url)]]

\* main, lines 599-866, against a site whose one listing page holds one stub
\* with the given hint, linking to the given detail page.  A record without
\* VIN adds an error string and is skipped (lines 645-649).
main_merge(listing_ld, json_ld, specs) ==
    /\ RunCount = 0
    /\ \E page \in {MergePage(listing_ld, json_ld, specs)} :
       \E record \in {build_vehicle_record_merge(page, "u1")} :
       \E crawl \in {[listings |-> <<"u1">>, pages |-> <<page>>,
                      all_vehicles |-> IF record.vin = "" THEN << >> ELSE <<record>>,
                      errors |-> IF record.vin = "" THEN <<ErrNoVin("u1")>> ELSE << >>]} :
       \E s \in {Reconcile(vehicles, crawl.all_vehicles, Len(runs) + 1)} :
         /\ ~s.raised
         /\ vehicles' = Persist(s.rows)
         /\ change_log' = change_log \o s.cl
         /\ price_history' = price_history \o PersistPrices(s.ph)
         /\ runs' = Append(runs, RunEntry(crawl, COMPLETED, s, vehicles,
                                          Len(change_log), Len(price_history), FALSE))

(***************************************************************************)
(* Listing pagination: scrape_real.py get_all_listing_vehicles and         *)
(* routers/monitor.py _quick_website_check, one page load at a time        *)
(***************************************************************************)

\* Largest number of page loads of one pagination explored.
MaxFetch == 4

\* A listing page as both loops read it: its stubs (detail links) and
\* whether it holds a link to the page after it.
CtlPage(listings, next_link) == [listings |-> listings, next_link |-> next_link]

CtlPages == {CtlPage(listings, next_link) :
                listings \in {<< >>, <<"u1">>, <<"u2">>}, next_link \in BOOLEAN}

\* The remote sites explored: one or two pages, and beyond them a page
\* without stubs whose pagination control links to the next page or not.
CtlSites ==
    {[pages |-> pg, tail_next |-> b] :
        pg \in UNION {[1..n -> CtlPages] : n \in 1..2}, b \in BOOLEAN}

\* The page the site serves for _page=page_num.
PageAt(site, page_num) ==
    IF page_num <= Len(site.pages) THEN site.pages[page_num]
    ELSE CtlPage(<< >>, site.tail_next)

\* No pagination has been started.
NoPaging ==
    [who |-> "none", site |-> [pages |-> << >>, tail_next |-> FALSE], max_pages |-> 0,
     page_num |-> 0, seen |-> {}, fetched |-> 0, empty_at |-> 0, pc |-> "idle",
     outcome |-> "none"]

\* Lines 198-200 of scrape_real.py and lines 137-152 of monitor.py: the
\* locals of a pagination that starts.
StartPaging(who, site, max_pages) ==
    [NoPaging EXCEPT !.who = who, !.site = site, !.max_pages = max_pages,
                     !.page_num = 1, !.pc = "loading"]

\* main, line 599: step 1 calls get_all_listing_vehicles(page, max_pages).
get_all_listing_vehicles_call(site, max_pages) ==
    /\ paging.pc = "idle"
    /\ paging' = StartPaging("run", site, max_pages)

\* get_all_listing_vehicles, lines 202-221: one pass of the while loop.  The
\* loop leaves on a page without a link to the next page and on the page
\* limit; the number of stubs of the page is not looked at.
get_all_listing_vehicles_pass ==
    /\ paging.who = "run"
    /\ paging.pc = "loading"
    /\ paging.fetched < MaxFetch
    /\ LET pg       == PageAt(paging.site, paging.page_num)
           has_next == pg.next_link
           leaves   == \/ ~has_next
                       \/ paging.max_pages # 0 /\ paging.page_num >= paging.max_pages
       IN paging' = [paging EXCEPT
                       !.seen = @ \cup {pg.listings[i] : i \in 1..Len(pg.listings)},
                       !.fetched = @ + 1,
                       !.empty_at = IF @ = 0 /\ pg.listings = << >>
                                    THEN paging.page_num ELSE @,
                       !.page_num = IF leaves THEN @ ELSE @ + 1,
                       !.pc = IF leaves THEN "listed" ELSE "loading"]

\* main, lines 600-610: without stubs the run appends "No vehicles found!",
\* sets its progress snapshot to failed and returns; otherwise it goes on to
\* step 2.
main_listed ==
    /\ paging.who = "run"
    /\ paging.pc = "listed"
    /\ paging' = [paging EXCEPT !.pc = "done",
                                !.outcome = IF paging.seen = {} THEN "failed" ELSE "ok"]

\* _compare_inventory, line 313: the drift check calls
\* _quick_website_check(max_pages).
_quick_website_check_call(site, max_pages) ==
    /\ paging.pc = "idle"
    /\ paging' = StartPaging("check", site, max_pages)

\* _quick_website_check, lines 154-274: one pass of the while loop.  The
\* loop leaves on a page without detail links, on a page without a VIN not
\* seen before, on a page without a link to a later page, and on the page
\* limit; it then returns what it collected.
_quick_website_check_pass ==
    /\ paging.who = "check"
    /\ paging.pc = "loading"
    /\ paging.fetched < MaxFetch
    /\ LET pg          == PageAt(paging.site, paging.page_num)
           detail_urls == {pg.listings[i] : i \in 1..Len(pg.listings)}
           page_found  == Cardinality(detail_urls \ paging.seen)
           has_next    == pg.next_link
           early       == detail_urls = {} \/ page_found = 0 \/ ~has_next
           limit       == paging.max_pages # 0 /\ paging.page_num + 1 > paging.max_pages
       IN paging' = [paging EXCEPT
                       !.seen = @ \cup detail_urls,
                       !.fetched = @ + 1,
                       !.empty_at = IF @ = 0 /\ pg.listings = << >>
                                    THEN paging.page_num ELSE @,
                       !.page_num = IF early THEN @ ELSE @ + 1,
                       !.pc = IF early \/ limit THEN "done" ELSE "loading",
                       !.outcome = IF early \/ limit THEN "ok" ELSE @]

(***************************************************************************)
(* routers/monitor.py: GET /compare and the sync-check progress file       *)
(***************************************************************************)

\* The GET /compare requests that may be in flight together.
Comparisons == {"c1", "c2"}

\* .sync_progress.json does not exist.
Absent == [status |-> "absent", current_page |-> 0]

\* No request is in flight and the file does not exist.
NoSync ==
    [file |-> Absent, cmp |-> [c \in Comparisons |-> [pc |-> "idle", page |-> 0]]]

\* compare_inventory, line 534: the request is received and awaits
\* _write_log.
compare_inventory_log(c) ==
    /\ sync.cmp[c].pc = "idle"
    /\ sync' = [sync EXCEPT !.cmp[c].pc = "logged"]

\* compare_inventory, lines 537-542, up to the first await of
\* _quick_website_check (line 129): the file is removed, written with status
\* "starting" and overwritten by _update_progress("Launching browser...").
compare_inventory_start(c) ==
    /\ sync.cmp[c].pc = "logged"
    /\ sync' = [sync EXCEPT !.cmp[c] = [pc |-> "scanning", page |-> 0],
                            !.file = [status |-> "scanning", current_page |-> 0]]

\* _quick_website_check, lines 154-158: _update_progress of the next page.
_quick_website_check_progress(c) ==
    /\ sync.cmp[c].pc = "scanning"
    /\ sync.cmp[c].page < MaxFetch
    /\ sync' = [sync EXCEPT !.cmp[c].page = @ + 1,
                            !.file = [status |-> "scanning",
                                      current_page |-> sync.cmp[c].page + 1]]

\* _compare_inventory, lines 313-322: the scan returned; the file is written
\* with status "comparing" and the session is awaited.
_compare_inventory_comparing(c) ==
    /\ sync.cmp[c].pc = "scanning"
    /\ sync' = [sync EXCEPT !.cmp[c].pc = "comparing",
                            !.file = [status |-> "comparing", current_page |-> 0]]

\* compare_inventory, lines 541-545: _compare_inventory returned or raised;
\* the finally clause removes the file.
compare_inventory_finally(c, raised) ==
    /\ sync.cmp[c].pc = "comparing"
    /\ sync' = [sync EXCEPT !.cmp[c].pc = IF raised THEN "failed" ELSE "saving",
                            !.file = Absent]

\* compare_inventory, lines 547-559: the last-check fields are saved and the
\* response is sent; after an exception the response is the error.
compare_inventory_return(c) ==
    /\ sync.cmp[c].pc \in {"saving", "failed"}
    /\ sync' = [sync EXCEPT !.cmp[c] = [pc |-> "idle", page |-> 0]]

\* get_sync_progress, lines 562-570: the status of the response.
get_sync_progress ==
    IF sync.file = Absent THEN [status |-> "idle", current_page |-> 0] ELSE sync.file

(***************************************************************************)
(* scrape_real.py download_photos                                          *)
(***************************************************************************)

\* Largest number of photo URLs of one record explored.
MaxPhotos == 3

\* What the site answers for a photo URL: a JPEG or a PNG that decodes, a
\* 200 response (content type image/jpeg) whose bytes are not an image, or
\* no usable response (the request raises, or raise_for_status does).
PhotoOutcomes == {"jpg", "png", "undecodable", "failed"}

\* The photo lists explored, each URL named by what the site answers for it.
PhotoLists == UNION {[1..n -> PhotoOutcomes] : n \in 0..MaxPhotos}

\* has_dealer_frame, lines 449-473, of undecodable bytes: Image.open raises
\* inside the try and the function returns False.  Decodable photos of the
\* explored sites carry no frame.
has_dealer_frame(img_bytes) == FALSE

RECURSIVE DownloadLoop(_, _, _)
\* download_photos, lines 531-559: the for loop from index idx on.  A photo
\* whose request fails is caught by the except clause and adds nothing; any
\* other response is written to disk as it is (has_dealer_frame being False)
\* and its path appended.
DownloadLoop(vin, photo_urls, idx) ==
    IF idx > Len(photo_urls) THEN << >>
    ELSE LET resp == photo_urls[idx]
             ext  == IF resp = "png" THEN ".png" ELSE ".jpg"
             path == [vin |-> vin, fname |-> idx, ext |-> ext,
                      cropped |-> ext = ".jpg" /\ has_dealer_frame(resp)]
         IN (IF resp = "failed" THEN << >> ELSE <<path>>)
                \o DownloadLoop(vin, photo_urls, idx + 1)

\* download_photos(vin, photo_urls), lines 513-560.
download_photos(vin, photo_urls) ==
    IF photo_urls = << >> \/ vin = "" THEN << >>
    ELSE DownloadLoop(vin, photo_urls, 1)

\* A detail page that shows VIN1 with the given photo URLs.
PhotoPage(photo_urls) ==
    [vin |-> "VIN1", price |-> None, raises |-> FALSE, photos |-> photo_urls]

\* main, lines 599-866, against a site whose one listing page links to one
\* detail page with the given photos: lines 660-671 replace the record's
\* remote photos by the local paths, step 3 runs and commits.
main_photos(photo_urls) ==
    /\ RunCount = 0
    /\ \E page \in {PhotoPage(photo_urls)} :
       \E record \in {build_vehicle_record(page, "u1")} :
       \E local_paths \in {IF page.photos # << >>
                            THEN download_photos(record.vin, page.photos) ELSE << >>} :
       \E crawl \in {[listings |-> <<"u1">>, pages |-> <<page>>,
                      all_vehicles |-> <<[vin |-> record.vin, f |-> record.f,
                                          photos |-> local_paths]>>,
                      errors |-> << >>]} :
       \E s \in {Reconcile(vehicles, crawl.all_vehicles, Len(runs) + 1)} :
         /\ ~s.raised
         /\ vehicles' = Persist(s.rows)
         /\ change_log' = change_log \o s.cl
         /\ price_history' = price_history \o PersistPrices(s.ph)
         /\ runs' = Append(runs, RunEntry(crawl, COMPLETED, s, vehicles,
                                          Len(change_log), Len(price_history), FALSE))

(***************************************************************************)
(* scraper/utils.py retry_with_backoff, scrape_real.py navigate            *)
(***************************************************************************)

\* Largest configured number of attempts explored.
MaxRetries == 3

\* Exceptions the wrapped navigation may raise.
Errors == {"TimeoutError", "Error"}

\* Durations are counted in half seconds.
Seconds(n) == 2 * n

\* No navigation call has been made.
NoCall ==
    [fn |-> "none", pc |-> "idle", max_retries |-> 0, base_delay |-> 0, attempt |-> 0,
     calls |-> 0, waits |-> << >>, errors |-> << >>, last_exception |-> "None",
     result |-> "None", raised |-> "None"]

RECURSIVE Pow2(_)
\* 2 ** attempt
Pow2(attempt) == IF attempt = 0 THEN 1 ELSE 2 * Pow2(attempt - 1)

\* Variant of Backoff: the delay does not grow with the attempt.
Backoff_Constant(base_delay, attempt) == base_delay

\* utils.py line 55, scrape_real.py line 128: base delay x 2^attempt.
Backoff(base_delay, attempt) == base_delay * Pow2(attempt)

\* random.uniform(0, 1) and random.random() * 2: at least 0 and below the
\* bound.
Jitter(bound) == 0..(bound - 1)

\* The bound of the jitter of each function.
JitterBound(fn) == IF fn = "navigate" THEN Seconds(2) ELSE Seconds(1)

\* retry_with_backoff(coro_func, max_retries, base_delay) is called:
\* lines 48-49.  _navigate_with_retry passes base_delay 3.0 and the
\* configured maximum, the defaults are 3 attempts and 2.0.
retry_with_backoff_call(max_retries, base_delay) ==
    /\ nav.pc = "idle"
    /\ nav' = [NoCall EXCEPT !.fn = "retry_with_backoff", !.pc = "attempt",
                             !.max_retries = max_retries, !.base_delay = base_delay]

\* Lines 50-56 and 57: one attempt.  A result is returned at once; an
\* exception is kept as last_exception and, unless the attempt was the last,
\* a wait follows; after the last attempt last_exception is raised.
retry_with_backoff_attempt(outcome) ==
    /\ nav.fn = "retry_with_backoff" /\ nav.pc = "attempt"
    /\ IF outcome \notin Errors
       THEN nav' = [nav EXCEPT !.pc = "returned", !.calls = @ + 1, !.result = outcome]
       ELSE IF nav.attempt < nav.max_retries - 1
       THEN \E jitter \in Jitter(JitterBound("retry_with_backoff")) :
               nav' = [nav EXCEPT !.pc = "sleep", !.calls = @ + 1,
                                  !.last_exception = outcome,
                                  !.errors = Append(@, outcome),
                                  !.waits = Append(@, Backoff(nav.base_delay, nav.attempt)
                                                      + jitter)]
       ELSE nav' = [nav EXCEPT !.pc = "raised", !.calls = @ + 1,
                               !.last_exception = outcome,
                               !.errors = Append(@, outcome),
                               !.raised = outcome]

\* Line 56: the wait ends and the loop takes the next attempt.
retry_with_backoff_sleep ==
    /\ nav.fn = "retry_with_backoff" /\ nav.pc = "sleep"
    /\ nav' = [nav EXCEPT !.pc = "attempt", !.attempt = @ + 1]

\* navigate(page, url, retries) is called: lines 116-118; its base delay
\* is 3 seconds.
navigate_call(retries) ==
    /\ nav.pc = "idle"
    /\ nav' = [NoCall EXCEPT !.fn = "navigate", !.pc = "attempt",
                             !.max_retries = retries, !.base_delay = Seconds(3)]

\* Lines 119-132: one attempt.  After a successful load navigate returns
\* (None); an exception is followed by a wait, or re-raised when the attempt
\* was the last.
navigate_attempt(outcome) ==
    /\ nav.fn = "navigate" /\ nav.pc = "attempt"
    /\ IF outcome \notin Errors
       THEN nav' = [nav EXCEPT !.pc = "returned", !.calls = @ + 1]
       ELSE IF nav.attempt < nav.max_retries - 1
       THEN \E jitter \in Jitter(JitterBound("navigate")) :
               nav' = [nav EXCEPT !.pc = "sleep", !.calls = @ + 1,
                                  !.last_exception = outcome,
                                  !.errors = Append(@, outcome),
                                  !.waits = Append(@, Backoff(nav.base_delay, nav.attempt)
                                                      + jitter)]
       ELSE nav' = [nav EXCEPT !.pc = "raised", !.calls = @ + 1,
                               !.last_exception = outcome,
                               !.errors = Append(@, outcome),
                               !.raised = outcome]

\* Line 130: the wait ends and the loop takes the next attempt.
navigate_sleep ==
    /\ nav.fn = "navigate" /\ nav.pc = "sleep"
    /\ nav' = [nav EXCEPT !.pc = "attempt", !.attempt = @ + 1]

(***************************************************************************)
(* routers/monitor.py: the responses of PUT /config and GET /compare       *)
(***************************************************************************)

\* No response has been sent.
NoResponse ==
    [op |-> "none",
     body |-> [supplied |-> {}, enabled |-> FALSE, interval_minutes |-> 5,
               pages_to_scrape |-> 1],
     response |-> << >>]

\* PUT /config, lines 492-525: update_monitor_config runs and its return
\* value, MonitorConfigResponse.model_validate(config), is sent.
put_config(body) ==
    /\ update_monitor_config(body)
    /\ api' = [op |-> "update_monitor_config", body |-> body,
               response |-> monitor_config']

\* GET /compare, lines 528-559: the remote listing is scanned and compared
\* with the catalog, the last-check fields of the configuration row are
\* written and the comparison is returned.
compare_inventory(site, pages) ==
    /\ \E comparison \in {_compare_inventory(_quick_website_check(site, pages), vehicles)} :
         /\ monitor_config' = [monitor_config EXCEPT
                                  !.last_check_result = Summary(comparison)]
         /\ api' = [NoResponse EXCEPT !.op = "compare_inventory",
                                      !.response = Summary(comparison)]
    /\ UNCHANGED <<scrape_logs, _running_pids, alive, req, mon, next_task, progress,
                   system_logs, _monitor_task, nav>>

(***************************************************************************)
(* Initial states and specifications                                       *)
(***************************************************************************)

\* The catalog two runs after an empty one: run 1 found VIN1 behind "u1" at
\* 1.00, run 2 listed "u1" and found no VIN behind it.
SeedPage  == [vin |-> "VIN1", price |-> PyFloat(100), raises |-> FALSE]
SeedFresh == << build_vehicle_record(SeedPage, "u1") >>
SeedRun1  == Reconcile(<< >>, SeedFresh, 1)
SeedRun2  == Reconcile(Persist(SeedRun1.rows), << >>, 2)

SeededCatalog ==
    /\ vehicles = Persist(SeedRun2.rows)
    /\ change_log = SeedRun1.cl \o SeedRun2.cl
    /\ price_history = PersistPrices(SeedRun1.ph)
    /\ runs = << RunEntry([listings |-> <<"u1">>, pages |-> <<SeedPage>>,
                           all_vehicles |-> SeedFresh, errors |-> << >>],
                          COMPLETED, SeedRun1, << >>, 0, 0, TRUE),
                 RunEntry([listings |-> <<"u1">>, pages |-> <<NoVin>>,
                           all_vehicles |-> << >>, errors |-> <<ErrNoVin("u1")>>],
                          COMPLETED, SeedRun2, Persist(SeedRun1.rows),
                          Len(SeedRun1.cl), Len(SeedRun1.ph), TRUE) >>

EmptyCatalog ==
    /\ vehicles = << >>
    /\ change_log = << >>
    /\ price_history = << >>
    /\ runs = << >>

\* The API process after start-up: no request in flight, no run launched, the
\* loop task created by lifespan.
InitLocal ==
    /\ scrape_logs = <<>>
    /\ _running_pids = {}
    /\ alive = {}
    /\ req = [r \in Requests |-> IdleReq]
    /\ mon = LoopTop
    /\ next_task = 0
    /\ progress = [t \in 1..MaxTasks |-> "none"]
    /\ system_logs = {}
    /\ _monitor_task = "task"
    /\ nav = NoCall
    /\ api = NoResponse
    /\ orphans = << >>
    /\ paging = NoPaging
    /\ sync = NoSync

\* The remote site of a behaviour whose actions each meet a site of their own.
NoRemote == [pages |-> << << >> >>, detail |-> [u \in URLs |-> NoVin]]

InitProc == InitLocal /\ remote = NoRemote

\* The monitor is enabled with the default interval and page limit.
InitFlight ==
    /\ InitProc
    /\ monitor_config = [enabled |-> TRUE, interval_minutes |-> 30,
                         pages_to_scrape |-> 0, last_check_result |-> << >>]

\* The remote site of the drift checks explored next to trigger requests:
\* one page linking to one vehicle, which the empty catalog lacks.
FlightSites ==
    {site \in Sites : site.pages = << <<"u1">> >> /\ site.detail["u1"] = NoVin}

InitRecon == EmptyCatalog \/ SeededCatalog

Init == InitFlight /\ InitRecon

NextFlight ==
    /\ \/ \E r \in Requests : trigger_scrape_guard(r)
       \/ \E r \in Requests : trigger_scrape_launch(r)
       \/ \E r \in Requests : trigger_scrape_commit(r)
       \/ \E r \in Requests : trigger_scrape_end(r)
       \/ _monitor_loop_config
       \/ \E site \in FlightSites : _monitor_loop_check(site)
       \/ _monitor_loop_addlog
       \/ _monitor_loop_popen
       \/ _monitor_loop_sleep
       \/ \E t \in 1..MaxTasks : run_exit_completed(t)
       \/ \E t \in 1..MaxTasks : run_exit_crashed(t)
       \/ \E t \in 1..MaxTasks : run_exit_no_vehicles(t)
       \/ \E t \in 1..MaxTasks : run_exit_silent(t)
    /\ UNCHANGED <<api, remote, orphans, paging, sync>>
    /\ UNCHANGED reconVars

\* The API process starts on an empty catalog.
InitApi == InitFlight /\ EmptyCatalog

SpecFlight == InitApi /\ [][NextFlight]_vars

NextRecon ==
    /\ RunCount < MaxRuns
    /\ \/ \E site \in Sites, max_pages \in 0..MaxPages : main_no_vehicles(site, max_pages)
       \/ \E site \in Sites, max_pages \in 0..MaxPages : main_reconcile(site, max_pages)
    /\ UNCHANGED flightVars

\* Executions of main, one after the other, from an empty catalog.
SpecRecon == InitApi /\ [][NextRecon]_vars

\* The same from the catalog that two earlier executions left behind.
InitSeeded == InitFlight /\ SeededCatalog

SpecSeeded == InitSeeded /\ [][NextRecon]_vars

\* Executions of main against sites whose detail pages may fail to load.
NextDetail ==
    /\ RunCount < MaxFaultRuns
    /\ \/ \E site \in FaultySites, max_pages \in 0..MaxPages :
             main_no_vehicles(site, max_pages)
       \/ \E site \in FaultySites, max_pages \in 0..MaxPages :
             main_reconcile(site, max_pages)
    /\ UNCHANGED flightVars

SpecDetail == InitApi /\ [][NextDetail]_vars

\* The same, where moreover a listing page may be unreachable and the
\* datastore may fail during the upsert loop.
NextFault ==
    \/ NextDetail
    \/ /\ \/ main_listing_unreachable
          \/ \E crawl \in FaultyCrawls, done \in 0..1 : main_upsert_crash(crawl, done)
       /\ UNCHANGED flightVars

SpecFault == InitApi /\ [][NextFault]_vars

\* A site listing both vehicles, and one listing the first only.
StockSite ==
    [pages |-> << <<"u1">>, <<"u2">> >>,
     detail |-> [u \in URLs |-> [vin |-> UrlVin(u), price |-> PyFloat(100),
                                 raises |-> FALSE]]]
SoloSite == [StockSite EXCEPT !.pages = << <<"u1">> >>]

\* The tables after a first run of main against site1 and, when site2 is
\* not site1, a second run against site2 (all pages).
CatalogAfter(site1, site2) ==
    LET c1 == Crawl(site1, 0)
        s1 == Reconcile(<< >>, c1.all_vehicles, 1)
        e1 == RunEntry(c1, COMPLETED, s1, << >>, 0, 0, TRUE)
        c2 == Crawl(site2, 0)
        s2 == Reconcile(Persist(s1.rows), c2.all_vehicles, 2)
        e2 == RunEntry(c2, COMPLETED, s2, Persist(s1.rows), Len(s1.cl), Len(s1.ph), TRUE)
    IN IF site1 = site2
       THEN [vehicles |-> Persist(s1.rows), change_log |-> s1.cl,
             price_history |-> PersistPrices(s1.ph), runs |-> <<e1>>]
       ELSE [vehicles |-> Persist(s2.rows), change_log |-> s1.cl \o s2.cl,
             price_history |-> PersistPrices(s1.ph \o s2.ph), runs |-> <<e1, e2>>]

\* Both vehicles active; the first active and the second inactive.
StockedCatalog ==
    /\ vehicles = CatalogAfter(StockSite, StockSite).vehicles
    /\ change_log = CatalogAfter(StockSite, StockSite).change_log
    /\ price_history = CatalogAfter(StockSite, StockSite).price_history
    /\ runs = CatalogAfter(StockSite, StockSite).runs

MixedCatalog ==
    /\ vehicles = CatalogAfter(StockSite, SoloSite).vehicles
    /\ change_log = CatalogAfter(StockSite, SoloSite).change_log
    /\ price_history = CatalogAfter(StockSite, SoloSite).price_history
    /\ runs = CatalogAfter(StockSite, SoloSite).runs

\* The remote sites as the listing scan reads them: it opens no detail page.
ListingSites ==
    {[pages |-> pg, detail |-> [u \in URLs |-> Unlisted(u)]] : pg \in PageSeqs}

\* The monitor_config rows the loop may find: the column defaults, enabled
\* or not, and an interval below the minimum.
InitialConfigs ==
    {[enabled |-> e, interval_minutes |-> i, pages_to_scrape |-> 0,
      last_check_result |-> << >>] : e \in BOOLEAN, i \in {1, 30}}

\* The loop task was created by lifespan; the catalog is empty, or holds
\* active and inactive records.
InitMonitor ==
    /\ InitProc
    /\ monitor_config \in InitialConfigs
    /\ EmptyCatalog \/ SeededCatalog \/ StockedCatalog \/ MixedCatalog

NextMonitor ==
    /\ \/ _monitor_loop_config
       \/ _monitor_loop_disabled
       \/ \E site \in ListingSites : _monitor_loop_check(site)
       \/ \E site \in ListingSites, fail_page \in 0..MaxPages :
             _monitor_loop_check_failed(site, fail_page)
       \/ _monitor_loop_addlog
       \/ _monitor_loop_popen
       \/ _monitor_loop_sleep
       \/ _monitor_loop_raise
       \/ \E written \in BOOLEAN : _monitor_loop_error(written)
       \/ _monitor_loop_backoff
       \/ _monitor_loop_cancelled
       \/ _monitor_loop_stopped
       \/ \E body \in Bodies : update_monitor_config(body)
       \/ lifespan_shutdown
    /\ UNCHANGED <<api, remote, orphans, paging, sync>>
    /\ UNCHANGED reconVars

SpecMonitor == InitMonitor /\ [][NextMonitor]_vars

\* One execution of main against a page of price and mileage texts, from an
\* empty catalog and from catalogs that hold the vehicle, inactive or active.
InitParse == InitFlight /\ (EmptyCatalog \/ SeededCatalog \/ StockedCatalog)

NextParse ==
    /\ RunCount = 0
    /\ \E texts \in TextInputs : main_text(texts[1], texts[2])
    /\ UNCHANGED flightVars

SpecParse == InitParse /\ [][NextParse]_vars

\* Executions of main over every hint, detail JSON-LD and specs table.
NextMerge ==
    /\ RunCount = 0
    /\ \E listing_ld \in LdValues, json_ld \in LdValues, specs \in SpecsValues :
         main_merge(listing_ld, json_ld, specs)
    /\ UNCHANGED flightVars

SpecMerge == InitParse /\ [][NextMerge]_vars

\* Executions of main over every list of photo responses.
NextPhotos ==
    /\ RunCount = 0
    /\ \E photo_urls \in PhotoLists : main_photos(photo_urls)
    /\ UNCHANGED flightVars

SpecPhotos == InitParse /\ [][NextPhotos]_vars

\* One pagination of a run or of a drift check against a remote site.
NextPaging ==
    /\ \/ \E site \in CtlSites, max_pages \in 0..MaxPages :
            get_all_listing_vehicles_call(site, max_pages)
       \/ get_all_listing_vehicles_pass
       \/ main_listed
       \/ \E site \in CtlSites, max_pages \in 0..MaxPages :
            _quick_website_check_call(site, max_pages)
       \/ _quick_website_check_pass
    /\ UNCHANGED <<scrape_logs, _running_pids, alive, req, mon, next_task, progress,
                   monitor_config, system_logs, _monitor_task, nav, api, remote,
                   orphans, sync>>
    /\ UNCHANGED reconVars

SpecPaging == InitApi /\ [][NextPaging]_vars

\* GET /compare requests, two of which may overlap.
NextSync ==
    /\ \/ \E c \in Comparisons : compare_inventory_log(c)
       \/ \E c \in Comparisons : compare_inventory_start(c)
       \/ \E c \in Comparisons : _quick_website_check_progress(c)
       \/ \E c \in Comparisons : _compare_inventory_comparing(c)
       \/ \E c \in Comparisons, raised \in BOOLEAN : compare_inventory_finally(c, raised)
       \/ \E c \in Comparisons : compare_inventory_return(c)
    /\ UNCHANGED <<scrape_logs, _running_pids, alive, req, mon, next_task, progress,
                   monitor_config, system_logs, _monitor_task, nav, api, remote,
                   orphans, paging>>
    /\ UNCHANGED reconVars

SpecSync == InitApi /\ [][NextSync]_vars

\* One navigation call, through retry_with_backoff or navigate, with every
\* configured maximum and every outcome of each attempt.
NextRetry ==
    /\ \/ \E max_retries \in 1..MaxRetries, base_delay \in {Seconds(2), Seconds(3)} :
             retry_with_backoff_call(max_retries, base_delay)
       \/ \E outcome \in {"html"} \cup Errors : retry_with_backoff_attempt(outcome)
       \/ retry_with_backoff_sleep
       \/ \E retries \in 1..MaxRetries : navigate_call(retries)
       \/ \E outcome \in {"loaded"} \cup Errors : navigate_attempt(outcome)
       \/ navigate_sleep
    /\ UNCHANGED <<scrape_logs, _running_pids, alive, req, mon, next_task, progress,
                   monitor_config, system_logs, _monitor_task, api, remote, orphans, paging, sync>>
    /\ UNCHANGED reconVars

SpecRetry == InitApi /\ [][NextRetry]_vars

\* Trigger requests and the run subprocesses they launch, without the
\* scheduler loop.
NextTrigger ==
    /\ \/ \E r \in Requests : trigger_scrape_guard(r)
       \/ \E r \in Requests : trigger_scrape_launch(r)
       \/ \E r \in Requests : trigger_scrape_commit(r)
       \/ \E r \in Requests : trigger_scrape_end(r)
       \/ \E t \in 1..MaxTasks : run_exit_completed(t)
       \/ \E t \in 1..MaxTasks : run_exit_crashed(t)
       \/ \E t \in 1..MaxTasks : run_exit_no_vehicles(t)
       \/ \E t \in 1..MaxTasks : run_exit_silent(t)
    /\ UNCHANGED <<mon, monitorVars, nav, api, remote, orphans, paging, sync>>
    /\ UNCHANGED reconVars

SpecTrigger == InitApi /\ [][NextTrigger]_vars

\* The remote sites of the manual comparisons explored next to
\* configuration updates: one that matches the active records and one that
\* lists a vehicle more.  The scheduler's own checks see the first, so its
\* cycles launch no run here (SpecFlight and SpecMonitor explore those).
ConfigSites == {SoloSite, StockSite}

\* The loop task was created by lifespan; the monitor is enabled and the
\* catalog holds an active and an inactive record.
InitConfig == InitFlight /\ MixedCatalog

NextConfig ==
    /\ \/ \E body \in Bodies : put_config(body)
       \/ \E site \in ConfigSites : compare_inventory(site, 0)
       \/ /\ \/ trigger_scrape_guard("r1")
             \/ trigger_scrape_launch("r1")
             \/ trigger_scrape_commit("r1")
             \/ trigger_scrape_end("r1")
             \/ _monitor_loop_config
             \/ _monitor_loop_disabled
             \/ _monitor_loop_check(SoloSite)
             \/ _monitor_loop_sleep
             \/ _monitor_loop_cancelled
             \/ _monitor_loop_stopped
          /\ UNCHANGED api
    /\ UNCHANGED <<remote, orphans, paging, sync>>
    /\ UNCHANGED reconVars

\* The configuration row under the API and the loop: configuration updates,
\* manual comparisons and manual triggers next to the scheduler cycles.
SpecConfig == InitConfig /\ [][NextConfig]_vars

\* A site whose second page links again to the vehicle of the first, before
\* a third page links to the other vehicle.
RepeatSite == [StockSite EXCEPT !.pages = << <<"u1">>, <<"u1">>, <<"u2">> >>]

\* The remote inventories held fixed next to the scheduler: behind each
\* link is the detail page of the VIN the link names.
ConvergeSites == {SoloSite, StockSite, RepeatSite}

\* The run subprocess the scheduler started with --pages pages (lines
\* 447-461) crawls the remote site, reconciles and commits the catalog, sets
\* its row COMPLETED and exits.
scheduled_run_completed(t) ==
    /\ \E i \in 1..Len(scrape_logs) :
          scrape_logs[i].task_id = t /\ scrape_logs[i].origin = "auto"
    /\ main_reconcile(remote, monitor_config.pages_to_scrape)
    /\ runs'[Len(runs')].status = COMPLETED
    /\ run_exit_completed(t)

\* The loop task was created by lifespan; the monitor is enabled with any
\* page limit; the remote inventory is one of ConvergeSites; the catalog is
\* empty or holds active and inactive records.
InitConverge ==
    /\ InitLocal
    /\ remote \in ConvergeSites
    /\ monitor_config \in {[enabled |-> TRUE, interval_minutes |-> 30,
                            pages_to_scrape |-> n, last_check_result |-> << >>] :
                              n \in 0..MaxPages}
    /\ EmptyCatalog \/ StockedCatalog \/ MixedCatalog

\* The scheduler cycles and the runs they launch, against a remote
\* inventory that does not change.
NextConverge ==
    /\ \/ /\ \/ _monitor_loop_config
             \/ _monitor_loop_check(remote)
             \/ _monitor_loop_addlog
             \/ _monitor_loop_popen
             \/ _monitor_loop_sleep
          /\ UNCHANGED reconVars
       \/ \E t \in 1..MaxTasks : scheduled_run_completed(t)
    /\ UNCHANGED <<api, remote, orphans, paging, sync>>

SpecConverge == InitConverge /\ [][NextConverge]_vars

\* Executions of main against the sites of ConvergeSites, started by the API
\* (with --task-id) or from the command line (without), one after the other,
\* from an empty catalog and from the one two earlier executions left.
NextManual ==
    /\ RunCount < MaxRuns
    /\ \/ \E site \in ConvergeSites, max_pages \in 0..MaxPages :
             main_reconcile(site, max_pages)
       \/ \E site \in ConvergeSites, max_pages \in 0..MaxPages :
             main_manual(site, max_pages)
    /\ UNCHANGED flightVars

SpecManual == Init /\ [][NextManual]_vars

\* Executions of the Celery task, one after the other, from an empty
\* catalog and from catalogs that hold active and inactive records.
InitCelery == InitFlight /\ (EmptyCatalog \/ StockedCatalog \/ MixedCatalog)

NextCelery ==
    /\ RunCount < MaxRuns
    /\ \E all_vehicles \in Snapshots : run_scrape(all_vehicles)
    /\ UNCHANGED flightVars

SpecCelery == InitCelery /\ [][NextCelery]_vars

\* The loop tasks of the process under configuration updates: the task
\* lifespan created, the tasks update_monitor_config creates and cancels.
NextTasks ==
    /\ \/ /\ \/ _monitor_loop_config
             \/ _monitor_loop_disabled
             \/ _monitor_loop_check(SoloSite)
             \/ _monitor_loop_sleep
             \/ _monitor_loop_cancelled
             \/ _monitor_loop_stopped
          /\ UNCHANGED orphans
       \/ \E body \in Bodies : update_monitor_config_task(body)
       \/ \E i \in 1..MaxOrphans : orphan_cancelled(i)
       \/ \E i \in 1..MaxOrphans : orphan_stopped(i)
    /\ UNCHANGED <<api, remote, paging, sync>>
    /\ UNCHANGED reconVars

SpecTasks == InitConfig /\ [][NextTasks]_vars

\* One step of the loop task that _monitor_task refers to or referred to
\* last.  Task.cancel() has the task resume with CancelledError at the await
\* it is suspended in: once its cancellation is requested it runs nothing
\* else.
LoopRuns ==
    /\ ~mon.cancel
    /\ \/ _monitor_loop_config
       \/ _monitor_loop_disabled
       \/ \E site \in ConfigSites : _monitor_loop_check(site)
       \/ _monitor_loop_addlog
       \/ _monitor_loop_popen
       \/ _monitor_loop_sleep
    /\ UNCHANGED <<api, remote, orphans, paging, sync>>
    /\ UNCHANGED reconVars

\* The process starts with the configuration row at its column defaults:
\* lifespan creates the loop task although the monitor is disabled.
InitDisabled ==
    /\ InitProc
    /\ monitor_config = [enabled |-> FALSE, interval_minutes |-> 30,
                         pages_to_scrape |-> 0, last_check_result |-> << >>]
    /\ MixedCatalog

\* The bodies that supply enabled or nothing.
SwitchBodies == {body \in Bodies : body.supplied \subseteq {"enabled"}}

NextDisabled ==
    \/ LoopRuns
    \/ /\ \/ _monitor_loop_cancelled
          \/ _monitor_loop_stopped
          \/ \E body \in SwitchBodies : update_monitor_config(body)
       /\ UNCHANGED <<api, remote, orphans, paging, sync>>
       /\ UNCHANGED reconVars

\* The loop from a disabled start under configuration updates, each made
\* once the task cancelled before it is done.  The event
\* loop resumes a task that can run: its sleeps end and its awaits return.
SpecDisabled == InitDisabled /\ [][NextDisabled]_vars /\ WF_vars(LoopRuns)

\* The run subprocess that trigger_scrape started for task t with --pages
\* max_pages (its pid is in _running_pids) crawls the remote site,
\* reconciles and commits the catalog, sets its row COMPLETED and exits.
triggered_run_completed(t, max_pages) ==
    /\ t \in _running_pids
    /\ main_reconcile(remote, max_pages)
    /\ runs'[Len(runs')].status = COMPLETED
    /\ run_exit_completed(t)

\* The API process and the runs it launches against a site that lists both
\* vehicles, one of them inactive in the catalog: one scheduler cycle, manual
\* drift checks, trigger requests, configuration updates that leave the
\* monitor enabled, and run subprocesses.
InitOwner ==
    /\ InitLocal
    /\ remote = StockSite
    /\ monitor_config = [enabled |-> TRUE, interval_minutes |-> 30,
                         pages_to_scrape |-> 0, last_check_result |-> << >>]
    /\ MixedCatalog

\* The bodies that supply the interval only.
IntervalBodies == {body \in Bodies : body.supplied = {"interval_minutes"}}

NextOwner ==
    /\ \/ /\ \/ _monitor_loop_check(remote) /\ UNCHANGED api
             \/ compare_inventory(remote, 0)
          /\ vehicles' = _compare_inventory_rows(vehicles)
          /\ UNCHANGED <<change_log, price_history, runs>>
       \/ /\ \/ _monitor_loop_config
             \/ _monitor_loop_addlog
             \/ _monitor_loop_popen
             \/ trigger_scrape_guard("r1")
             \/ trigger_scrape_launch("r1")
             \/ trigger_scrape_commit("r1")
             \/ trigger_scrape_end("r1")
             \/ \E body \in IntervalBodies : update_monitor_config(body)
          /\ UNCHANGED api
          /\ UNCHANGED reconVars
       \/ /\ \/ \E t \in 1..MaxTasks : scheduled_run_completed(t)
             \/ \E t \in 1..MaxTasks : triggered_run_completed(t, 0)
          /\ UNCHANGED api
    /\ UNCHANGED <<remote, orphans, paging, sync>>

SpecOwner == InitOwner /\ [][NextOwner]_vars

Next == NextFlight \/ NextRecon \/ NextDetail \/ NextFault \/ NextMonitor \/ NextParse
            \/ NextRetry \/ NextConfig \/ NextTrigger \/ NextConverge
            \/ NextManual \/ NextCelery \/ NextTasks
            \/ NextDisabled \/ NextOwner \/ NextMerge
            \/ NextPaging \/ NextSync \/ NextPhotos

Spec == Init /\ [][Next]_vars

\* C1: at most one full crawl+reconcile run process is alive at any time,
\* whichever of trigger_scrape and _monitor_loop launched the runs.
C1_SingleFlight == Cardinality(alive) <= 1

\* C2: a trigger_scrape call made while a run process is alive answers 409,
\* creates no Run Record, starts no process and does not touch the live
\* run's Run Record.
C2_TriggerWhileAliveRejected ==
    \A r \in Requests :
        (req[r].pc # "idle" /\ req[r].called_alive) =>
            /\ req[r].resp = "409"
            /\ req[r].task = NoTask
            /\ req[r].stale = 0

\* The snapshot statuses after which a client stops polling.
TerminalSnapshot == {COMPLETED, FAILED}

\* C11: when the process of a run exits on one of the exit paths of
\* scrape_real.py (normal completion, an exception leaving main, the early
\* return on an empty listing), every Run Record of its run id is
\* 'completed' or 'failed' and its Progress Snapshot is terminal.
C11_ExitLeavesTerminalRecord ==
    [][\A t \in 1..MaxTasks :
          (run_exit_completed(t) \/ run_exit_crashed(t) \/ run_exit_no_vehicles(t)) =>
              /\ progress'[t] \in TerminalSnapshot
              /\ \A i \in 1..Len(scrape_logs') :
                    scrape_logs'[i].task_id = t => scrape_logs'[i].status # RUNNING]_vars

\* C12: a Run Record whose status is no longer 'running' keeps that status
\* in every later step of every actor.
C12_TerminalStatusIsFinal ==
    [][\A i \in 1..Len(scrape_logs) :
          scrape_logs[i].status # RUNNING =>
              scrape_logs'[i].status = scrape_logs[i].status]_vars

(***************************************************************************)
(* Reading the history of runs                                             *)
(***************************************************************************)

Done(k) == runs[k].status = COMPLETED

\* Run b is the completed run that follows the completed run a.
NextDone(a, b) ==
    /\ a < b /\ Done(a) /\ Done(b)
    /\ \A k \in (a + 1)..(b - 1) : ~Done(k)

\* The active VINs of the catalog right after run k.
ActiveAfter(k) == IF k < Len(runs) THEN runs[k + 1].active_before ELSE ActiveVins(vehicles)

\* The change log rows appended by run k.
RunLog(k) == (runs[k].cl_from + 1)..runs[k].cl_to

CountLog(k, vin, type) ==
    Cardinality({i \in RunLog(k) :
                    change_log[i].vin = vin /\ change_log[i].change_type = type})

CountUpdated(k, vin, field) ==
    Cardinality({i \in RunLog(k) :
                    /\ change_log[i].vin = vin
                    /\ change_log[i].change_type = "updated"
                    /\ change_log[i].field_name = field})

\* The price history rows appended by run k for a VIN.
CountPrice(k, vin) ==
    Cardinality({i \in (runs[k].ph_from + 1)..runs[k].ph_to : price_history[i].vin = vin})

Occurrences(fresh, vin) == Cardinality({i \in 1..Len(fresh) : fresh[i].vin = vin})

RunIdx == 1..Len(runs)

\* C3: the catalog holds at most one Vehicle Record per VIN, active and
\* inactive records together, also after runs whose fresh snapshot has the
\* same VIN more than once.
C3_UniqueVin ==
    \A i, j \in 1..Len(vehicles) : vehicles[i].vin = vehicles[j].vin => i = j

C3_Witness ==
    \E k \in RunIdx, vin \in VINs :
        /\ Done(k) /\ ~runs[k].seed
        /\ Occurrences(runs[k].fresh, vin) > 1
        /\ vin \in KnownVins(vehicles)

\* C4: when reconciliation runs twice in a row with an identical fresh
\* snapshot, the second run appends no Change Log Entry of any type.
C4_Idempotent ==
    \A a \in RunIdx :
        (a + 1 \in RunIdx /\ Done(a) /\ Done(a + 1)
            /\ runs[a].fresh = runs[a + 1].fresh)
        => runs[a + 1].cl_to = runs[a + 1].cl_from

\* C5: a VIN present in two consecutive completed runs with identical field
\* values gets no "updated" Change Log Entry and no new Price History Entry
\* in the second run.
C5_NoUpdateWhenIdentical ==
    \A a \in RunIdx :
        (a + 1 \in RunIdx /\ Done(a) /\ Done(a + 1)) =>
            \A i \in 1..Len(runs[a].fresh), j \in 1..Len(runs[a + 1].fresh) :
                runs[a].fresh[i] = runs[a + 1].fresh[j] =>
                    /\ \A n \in FieldNames :
                          CountUpdated(a + 1, runs[a].fresh[i].vin, n) = 0
                    /\ CountPrice(a + 1, runs[a].fresh[i].vin) = 0

\* A VIN present in completed run a, absent from the next completed run b
\* and present again in the completed run c after that.
OutAndBack(a, b, c, vin) ==
    /\ NextDone(a, b) /\ NextDone(b, c)
    /\ vin \in VinsOf(runs[a].fresh)
    /\ vin \notin VinsOf(runs[b].fresh)
    /\ vin \in VinsOf(runs[c].fresh)

\* C6 (as claimed): for a VIN present in completed run N, absent from N+1
\* and present in N+2, run N+1 appends exactly one "removed" entry and marks
\* it inactive, run N+2 appends exactly one "reactivated" entry and marks it
\* active, and the three runs append no other "removed" or "reactivated"
\* entry for that VIN.
C6_RemovedThenReactivated ==
    \A a, b \in RunIdx : NextDone(a, b) => \A c \in RunIdx, vin \in VINs :
        OutAndBack(a, b, c, vin) =>
            /\ CountLog(b, vin, "removed") = 1
            /\ vin \notin ActiveAfter(b)
            /\ CountLog(c, vin, "reactivated") = 1
            /\ vin \in ActiveAfter(c)
            /\ CountLog(a, vin, "removed") = 0
            /\ CountLog(c, vin, "removed") = 0
            /\ CountLog(a, vin, "reactivated") = 0
            /\ CountLog(b, vin, "reactivated") = 0

\* C6 (amended): as above, except that run N itself may append a
\* "reactivated" entry (it does when the VIN was inactive before run N); no
\* other "removed" entry is appended by the three runs and no other
\* "reactivated" entry by runs N+1 and N+2.
C6_RemovedThenReactivatedAmended ==
    \A a, b \in RunIdx : NextDone(a, b) => \A c \in RunIdx, vin \in VINs :
        OutAndBack(a, b, c, vin) =>
            /\ CountLog(b, vin, "removed") = 1
            /\ vin \notin ActiveAfter(b)
            /\ CountLog(c, vin, "reactivated") = 1
            /\ vin \in ActiveAfter(c)
            /\ CountLog(a, vin, "removed") = 0
            /\ CountLog(c, vin, "removed") = 0
            /\ CountLog(b, vin, "reactivated") = 0
            /\ CountLog(a, vin, "reactivated") =
                  (IF vin \in runs[a].known_before \ runs[a].active_before THEN 1 ELSE 0)

C6_Witness ==
    \E a, b, c \in RunIdx, vin \in VINs :
        /\ OutAndBack(a, b, c, vin)
        /\ ~runs[c].seed
        /\ CountLog(c, vin, "reactivated") = 1

\* A VIN that run k meets for the first time, once in its fresh snapshot.
FirstSeen(k, i) ==
    /\ Done(k)
    /\ runs[k].fresh[i].vin \notin runs[k].known_before
    /\ Occurrences(runs[k].fresh, runs[k].fresh[i].vin) = 1

C8_ActiveIffFresh ==
    \A k \in RunIdx :
        Done(k) =>
            /\ ActiveAfter(k) = VinsOf(runs[k].fresh)
            /\ \A vin \in runs[k].known_before \ VinsOf(runs[k].fresh) :
                  CountLog(k, vin, "removed") =
                     (IF vin \in runs[k].active_before THEN 1 ELSE 0)

C8_Witness ==
    \E k \in RunIdx :
        /\ Done(k) /\ ~runs[k].seed
        /\ runs[k].active_before \ VinsOf(runs[k].fresh) # {}
        /\ (runs[k].known_before \ runs[k].active_before) \ VinsOf(runs[k].fresh) # {}

\* C9: a run limited to the first N listing pages (N > 0) does not mark
\* inactive a record whose VIN is listed on a remote page beyond N.
C9_NoRemovalBeyondPageLimit ==
    [][\A site \in Sites, n \in 1..MaxPages :
          main_reconcile(site, n) =>
              \A vin \in RemoteVinsBeyond(site, n) :
                  vin \in ActiveVins(vehicles) => vin \in ActiveVins(vehicles')]_vars

\* C10: within one run there is at most one "updated" Change Log Entry per
\* VIN and tracked field, and at most one "new", one "removed" and one
\* "reactivated" entry per VIN, also when the fresh snapshot of the run has
\* the same VIN in more than one record.
C10_OneEntryPerRun ==
    \A k \in RunIdx, vin \in VINs :
        /\ \A n \in FieldNames : CountUpdated(k, vin, n) <= 1
        /\ CountLog(k, vin, "new") <= 1
        /\ CountLog(k, vin, "removed") <= 1
        /\ CountLog(k, vin, "reactivated") <= 1

\* Positions of the stubs of a run whose detail extraction failed: the
\* detail page raised, or it gave no VIN.
FailedStubs(e) ==
    {i \in 1..Len(e.stubs) : e.pages[i].raises \/ e.pages[i].vin = ""}

\* C17: a run whose listing yields n >= 1 stubs of which k fail detail
\* extraction ends completed with vehicles_found = n - k and exactly k error
\* strings, the other n - k stubs are reconciled (each counted as new or as
\* updated), and no catalog row has an empty VIN.
C17_FailedDetailsSkipped ==
    /\ \A r \in 1..Len(runs) :
         LET e == runs[r]
             n == Len(e.stubs)
             k == Cardinality(FailedStubs(e))
         IN n > 0 =>
               /\ e.status = COMPLETED
               /\ e.vehicles_found = n - k
               /\ Len(e.errors) = k
               /\ e.vehicles_new + e.vehicles_updated = n - k
               /\ \A i \in FailedStubs(e) :
                     \E j \in 1..k : e.errors[j].url = e.stubs[i]
    /\ \A i \in 1..Len(vehicles) : vehicles[i].vin # ""

\* A run of two stubs, one of them behind a detail page that raised, has
\* completed.
C17_Witness ==
    \E r \in 1..Len(runs) :
       /\ ~runs[r].seed
       /\ Len(runs[r].stubs) = 2
       /\ Cardinality(FailedStubs(runs[r])) = 1
       /\ \E i \in FailedStubs(runs[r]) : runs[r].pages[i].raises
       /\ runs[r].status = COMPLETED
       /\ runs[r].vehicles_found = 1

\* C18: a run in which navigation to a listing page fails after the retries
\* records the failure as a run-level error string and ends completed.
C18_NavigationFailureNotFatal ==
    [][main_listing_unreachable =>
          /\ runs'[Len(runs')].status = COMPLETED
          /\ runs'[Len(runs')].errors # << >>]_vars

\* The last lifecycle entry ("new", "removed", "reactivated") of a VIN in
\* the change log, 0 when it has none.
LastLifecycle(vin) ==
    LET at == {i \in 1..Len(change_log) :
                  /\ change_log[i].vin = vin
                  /\ change_log[i].change_type \in {"new", "removed", "reactivated"}}
    IN IF at = {} THEN 0 ELSE CHOOSE i \in at : \A j \in at : j <= i

\* The last price history entry of a VIN, 0 when it has none.
LastPrice(vin) ==
    LET at == {i \in 1..Len(price_history) : price_history[i].vin = vin}
    IN IF at = {} THEN 0 ELSE CHOOSE i \in at : \A j \in at : j <= i

\* The catalog and the audit trail describe the same mutations: a VIN has a
\* row exactly when the log has its one "new" entry, the row is active
\* exactly when its last lifecycle entry is not "removed", and a known price
\* is the price of the VIN's last price history entry.
AuditConsistent ==
    /\ \A vin \in VINs :
          Cardinality({i \in 1..Len(change_log) :
                          change_log[i].vin = vin /\ change_log[i].change_type = "new"})
             = (IF vin \in KnownVins(vehicles) THEN 1 ELSE 0)
    /\ \A i \in 1..Len(vehicles) :
          /\ LastLifecycle(vehicles[i].vin) # 0
          /\ vehicles[i].is_active
                <=> change_log[LastLifecycle(vehicles[i].vin)].change_type # "removed"
          /\ vehicles[i].f["price"] # None =>
                /\ LastPrice(vehicles[i].vin) # 0
                /\ price_history[LastPrice(vehicles[i].vin)].price = vehicles[i].f["price"]

Checked == mon.pc \in {"triggering", "popen", "sleeping"}

\* The remote VIN set of the last listing scan.
ScanVins == {mon.website_vehicles[i].vin : i \in 1..Len(mon.website_vehicles)}

\* The entries of the per-VIN list of a comparison that carry a VIN.
EntriesOf(comparison, vin) ==
    {i \in 1..Len(comparison.vehicles) : comparison.vehicles[i].vin = vin}

\* C13: for the remote VIN set R of the listing scan and the local active
\* VIN set L, the comparison has missing_locally = |R - L|, extra_locally =
\* |L - R|, matched = |R & L| and changed = 0, and its list holds exactly
\* one entry per VIN of R | L, tagged match, missing_local, missing_remote.
C13_ComparisonCounts ==
    Checked =>
       LET R == ScanVins
           L == ActiveVins(vehicles)
           c == mon.comparison
       IN /\ c.missing_locally = Cardinality(R \ L)
          /\ c.extra_locally = Cardinality(L \ R)
          /\ c.matched = Cardinality(R \cap L)
          /\ c.changed = 0
          /\ Len(c.vehicles) = Cardinality(R \cup L)
          /\ \A vin \in R \cup L :
                /\ Cardinality(EntriesOf(c, vin)) = 1
                /\ \A i \in EntriesOf(c, vin) :
                      c.vehicles[i].status =
                         (IF vin \in R \cap L THEN "match"
                          ELSE IF vin \in R THEN "missing_local" ELSE "missing_remote")

\* A check found one VIN on both sides and an inactive local record whose
\* VIN the site does not list.
C13_Witness ==
    /\ Checked
    /\ mon.comparison.matched = 1
    /\ KnownVins(vehicles) \ ActiveVins(vehicles) # {}
    /\ (KnownVins(vehicles) \ ActiveVins(vehicles)) \cap ScanVins = {}

\* C14: in an active cycle a run is launched exactly when missing-locally +
\* extra-locally + changed > 0.  On drift one Run Record with status running
\* and a new run id is added and then one run process is started; without
\* drift neither is created; then the loop sleeps max(interval_minutes, 5)
\* minutes, interval_minutes being the value read at the start of the cycle.
C14_LaunchIffDrift ==
    [][/\ (mon.pc = "idle" /\ mon'.pc = "checking") =>
              mon'.interval = (IF monitor_config.interval_minutes >= 5
                               THEN monitor_config.interval_minutes ELSE 5)
       /\ (mon.pc = "checking" /\ mon'.pc \in {"triggering", "sleeping"}) =>
              LET c == mon'.comparison
              IN /\ mon'.pc = "triggering"
                       <=> c.missing_locally + c.extra_locally + c.changed > 0
                 /\ UNCHANGED <<scrape_logs, alive, next_task>>
                 /\ mon'.pc = "sleeping" => mon'.sleep = mon.interval * 60
       /\ (mon.pc = "triggering" /\ mon'.pc = "popen") =>
              /\ Len(scrape_logs') = Len(scrape_logs) + 1
              /\ SubSeq(scrape_logs', 1, Len(scrape_logs)) = scrape_logs
              /\ scrape_logs'[Len(scrape_logs')].status = RUNNING
              /\ scrape_logs'[Len(scrape_logs')].task_id = mon'.task
              /\ ~HasRow(scrape_logs, mon'.task)
              /\ alive' = alive
       /\ (mon.pc = "popen" /\ mon'.pc = "sleeping") =>
              /\ mon.task \notin alive
              /\ alive' = alive \cup {mon.task}
              /\ scrape_logs' = scrape_logs
              /\ mon'.sleep = mon.interval * 60]_vars

\* The loop sleeps five minutes after launching a run for a drift that
\* consists of local records the site no longer lists.
C14_Witness ==
    /\ mon.pc = "sleeping"
    /\ mon.comparison.extra_locally > 0
    /\ mon.comparison.missing_locally = 0
    /\ mon.task \in alive
    /\ mon.sleep = 300

\* C15: the loop task ends only on cancellation; an exception raised in a
\* cycle, or by the log write of the error handler, does not end it.
C15_EndsOnlyOnCancel == mon.pc = "ended" => mon.cancelled

\* C16: a cancelled loop task has written the stop log when it ends, at
\* whichever await the cancellation arrived.
C16_CancelLogsStop ==
    (mon.pc = "ended" /\ mon.cancelled) => "Monitor stopped" \in system_logs

(***************************************************************************)
(* Reading the normalisation of price and mileage texts                    *)
(***************************************************************************)

\* The explored executions of main.
Explored == {k \in RunIdx : ~runs[k].seed}

\* The price a well-formed text (one decimal point at most) stands for: its
\* digits and decimal point, unknown when there is no digit or the number
\* is zero.
NormalPrice(text) ==
    LET cleaned == KeepDigitsAndPoint(text)
    IN IF KeepDigits(cleaned) = << >> THEN None
       ELSE IF float(cleaned).c = 0 THEN None
       ELSE float(cleaned)

\* The mileage a text stands for: its digits.
NormalMileage(text) ==
    IF KeepDigits(text) = << >> THEN None ELSE PyInt(DigitsValue(KeepDigits(text)))

\* C21: the record built from a detail page has the price its price text
\* cleans to (unknown for zero and for a text without digits) and the
\* mileage its mileage text cleans to, and no Vehicle Record or Price
\* History Entry holds price 0.
C21_NormalisedPriceAndMileage ==
    /\ \A k \in Explored : \A i \in 1..Len(runs[k].fresh) :
          /\ Cardinality(Points(runs[k].pages[i].price_str)) <= 1
                => runs[k].fresh[i].f["price"] = NormalPrice(runs[k].pages[i].price_str)
          /\ runs[k].fresh[i].f["mileage"] = NormalMileage(runs[k].pages[i].mileage_str)
    /\ Explored # {} =>
          /\ \A i \in 1..Len(vehicles) :
                vehicles[i].f["price"] # None => vehicles[i].f["price"].c # 0
          /\ \A i \in 1..Len(price_history) :
                price_history[i].price # None => price_history[i].price.c # 0

(***************************************************************************)
(* Reading the navigation retry                                            *)
(***************************************************************************)

Supplied(body, before, field) ==
    IF field \in body.supplied THEN body[field] ELSE before[field]

ConfigFields == {"enabled", "interval_minutes", "pages_to_scrape"}

\* The step is described by the response of an update_monitor_config call:
\* the row it leaves has the supplied fields set and the others, with the
\* last-check summary, as before, and it is the row returned.
UpdateStep ==
    /\ api'.op = "update_monitor_config"
    /\ \A field \in ConfigFields :
          monitor_config'[field] = Supplied(api'.body, monitor_config, field)
    /\ monitor_config'.last_check_result = monitor_config.last_check_result
    /\ api'.response = monitor_config'

\* C23: update_monitor_config sets exactly the fields its body supplies and
\* returns the resulting row; the fields not supplied and the last-check
\* summary keep their values; and a step that changes enabled,
\* interval_minutes or pages_to_scrape is an update_monitor_config call.
C23_UpdateSetsSuppliedFields ==
    /\ [][api' # api /\ api'.op = "update_monitor_config" => UpdateStep]_vars
    /\ [][(\E field \in ConfigFields : monitor_config'[field] # monitor_config[field])
             => UpdateStep]_vars

C23_Witness ==
    /\ api.op = "update_monitor_config"
    /\ api.body.supplied = {"pages_to_scrape"}
    /\ api.response.last_check_result # << >>
    /\ api.response.enabled
    /\ api.response.interval_minutes = 30
    /\ api.response.pages_to_scrape = 1
    /\ monitor_config = api.response

\* C25: the last-check summary of the configuration row is written by the
\* scheduler loop only: a step that changes it is the loop's drift check,
\* not a manual comparison, a configuration update or a manual trigger.
C25_LastCheckOwnedByLoop ==
    [][monitor_config'.last_check_result # monitor_config.last_check_result
          => /\ mon.pc = "checking"
             /\ mon'.pc \in {"sleeping", "triggering"}
             /\ api' = api
             /\ req' = req]_vars

(***************************************************************************)
(* Reading a successful trigger                                            *)
(***************************************************************************)

\* Request r found no RUNNING row when it was called.
FoundNoneRunning(r) == req[r].stale = 0

\* C24: a trigger_scrape call that finds no RUNNING row is not rejected; it
\* starts exactly one run process under a new task id of the "scrape-"
\* family, with the initial snapshot (status running) written and the pid
\* recorded under that id, returns the id, and its commit adds exactly one
\* row, RUNNING, with that id.
C24_TriggerSucceeds ==
    [][\A r \in Requests :
          /\ (req[r].pc = "idle" /\ req'[r].pc # "idle" /\ RunningIdx(scrape_logs) = {})
                => req'[r].pc = "flushed" /\ req'[r].resp # "409" /\ FoundNoneRunning(r)'
          /\ (req[r].pc = "flushed" /\ req'[r].pc # "flushed" /\ FoundNoneRunning(r))
                => /\ req'[r].pc = "returned" /\ req'[r].resp = "200"
                   /\ req'[r].task \notin alive \cup _running_pids
                   /\ ~HasRow(scrape_logs, req'[r].task)
                   /\ \A q \in Requests \ {r} : req[q].task # req'[r].task
                   /\ alive' = alive \cup {req'[r].task}
                   /\ _running_pids' = _running_pids \cup {req'[r].task}
                   /\ progress[req'[r].task] = "none"
                   /\ progress' = [progress EXCEPT ![req'[r].task] = RUNNING]
                   /\ scrape_logs' = scrape_logs
          /\ (req[r].pc = "returned" /\ req'[r].pc # "returned" /\ FoundNoneRunning(r))
                => /\ req'[r].pc = "done" /\ req'[r].resp = "200"
                   /\ req'[r].task = req[r].task
                   /\ scrape_logs' = Append(scrape_logs,
                                            [task_id |-> req[r].task, status |-> RUNNING,
                                             origin |-> "scrape"])
                   /\ UNCHANGED <<alive, _running_pids, progress>>]_vars

C24_Witness ==
    \E r \in Requests :
        /\ req[r].pc = "done" /\ req[r].resp = "200" /\ FoundNoneRunning(r)
        /\ req[r].task \in alive \cap _running_pids
        /\ progress[req[r].task] = RUNNING
        /\ Cardinality({i \in 1..Len(scrape_logs) :
                           scrape_logs[i].task_id = req[r].task}) = 1
        /\ \E i \in 1..Len(scrape_logs) :
              scrape_logs[i] = [task_id |-> req[r].task, status |-> RUNNING,
                                origin |-> "scrape"]

\* C26: immediately after the commit of a successful trigger_scrape call
\* exactly one row is RUNNING, the new one: the rows found RUNNING without
\* a live process have been marked FAILED.
C26_OneRunningAfterTrigger ==
    [][\A r \in Requests :
          (req[r].pc = "returned" /\ req'[r].pc = "done")
             => \A i \in RunningIdx(scrape_logs') :
                   scrape_logs'[i].task_id = req[r].task]_vars

(***************************************************************************)
(* Reading the update of a persisted record                                *)
(***************************************************************************)

\* Two prices are the same amount (or both unknown), whatever their type.
SamePrice(a, b) ==
    \/ a = None /\ b = None
    \/ a # None /\ b # None /\ a.c = b.c

\* The "updated" rows for a VIN and a field among the rows a step appends
\* to the change log.
AppendedUpdates(vin, field) ==
    {i \in (Len(change_log) + 1)..Len(change_log') :
        /\ change_log'[i].vin = vin
        /\ change_log'[i].change_type = "updated"
        /\ change_log'[i].field_name = field}

\* The rows for a VIN among those a step appends to the price history.
AppendedPrices(vin) ==
    {i \in (Len(price_history) + 1)..Len(price_history') : price_history'[i].vin = vin}

\* C27: when a completed run's fresh record matches a persisted VIN, the
\* run appends one "updated" entry for each tracked field whose normalised
\* string differs (old value the persisted one, new value the fresh one)
\* and none for the others, one Price History Entry if and only if the
\* price differs, and leaves the record active with every tracked field
\* equal to the fresh value.
C27_UpdateOfPersistedRecord ==
    [][(Len(runs') = Len(runs) + 1 /\ runs'[Len(runs')].status = COMPLETED) =>
          \A i \in 1..Len(vehicles), j \in 1..Len(runs'[Len(runs')].fresh) :
             LET existing == vehicles[i]
                 v        == runs'[Len(runs')].fresh[j]
             IN (existing.vin = v.vin /\ Occurrences(runs'[Len(runs')].fresh, v.vin) = 1) =>
                   /\ \A n \in FieldNames :
                         /\ Cardinality(AppendedUpdates(v.vin, n))
                               = IF NormStr(existing.f[n]) # NormStr(v.f[n]) THEN 1 ELSE 0
                         /\ \A e \in AppendedUpdates(v.vin, n) :
                               /\ change_log'[e].old_value = NormStr(existing.f[n])
                               /\ change_log'[e].new_value = NormStr(v.f[n])
                   /\ Cardinality(AppendedPrices(v.vin))
                         = IF SamePrice(existing.f["price"], v.f["price"]) THEN 0 ELSE 1
                   /\ vehicles'[i].is_active
                   /\ \A n \in FieldNames : vehicles'[i].f[n] = Stored(v.f[n])]_vars

\* C28: a run that extracted no record (no listing found, or no detail
\* page yielded a record) marks no persisted record inactive and appends no
\* "removed" Change Log Entry.
C28_EmptySnapshotRemovesNothing ==
    \A k \in RunIdx :
        (~runs[k].seed /\ runs[k].fresh = << >>) =>
            /\ runs[k].vehicles_removed = 0
            /\ \A vin \in VINs : CountLog(k, vin, "removed") = 0
            /\ runs[k].active_before \subseteq ActiveAfter(k)

(***************************************************************************)
(* Reading a drift check whose remote scan fails                           *)
(***************************************************************************)

\* C29: when the remote scan of a drift check fails, the cycle reports no
\* active local record as extra that a complete scan would have found on
\* the site, and launches a full run only if a complete scan would have
\* shown drift as well.
C29_FailedScanIsNotDrift ==
    [][\A site \in ListingSites, fail_page \in 0..MaxPages :
          _monitor_loop_check_failed(site, fail_page) =>
             LET complete == _quick_website_check(site, mon.pages)
                 read     == {complete[i].vin : i \in 1..Len(complete)}
             IN /\ \A i \in 1..Len(mon'.comparison.vehicles) :
                      mon'.comparison.vehicles[i].status = "missing_remote"
                         => mon'.comparison.vehicles[i].vin \notin read
                /\ mon'.pc = "triggering"
                      => needs_scrape(_compare_inventory(complete, vehicles))]_vars

(***************************************************************************)
(* Reading the scheduler against an unchanged remote inventory             *)
(***************************************************************************)

\* The last execution of main completed and extracted a vehicle from every
\* stub its listing crawl yielded.
LastRunExtractedAll ==
    /\ RunCount > 0
    /\ LET last == runs[Len(runs)]
       IN /\ ~last.seed
          /\ last.status = COMPLETED
          /\ last.errors = << >>
          /\ Len(last.fresh) = Len(last.stubs)

\* C30: while the remote inventory stays unchanged, a drift check that
\* follows a scheduler-launched run which completed with every listed
\* vehicle extracted (same page limit) reports no vehicle missing locally
\* and none extra locally, and the cycle launches no run.
C30_MonitorConverges ==
    [][(_monitor_loop_check(remote) /\ LastRunExtractedAll /\ alive = {})
          => /\ mon'.comparison.missing_locally = 0
             /\ mon'.comparison.extra_locally = 0
             /\ mon'.pc = "sleeping"]_vars

(***************************************************************************)
(* Reading the counters of a completed run                                 *)
(***************************************************************************)

\* The change log rows of a type that carry a run identifier.
EntriesCarrying(task_id, type) ==
    Cardinality({i \in 1..Len(change_log) :
                    change_log[i].task_id = task_id /\ change_log[i].change_type = type})

\* C31: in every completed run record written by main, vehicles_found is
\* vehicles_new + vehicles_updated, vehicles_new is the number of "new"
\* change log entries that carry the record's run identifier and
\* vehicles_removed the number of "removed" entries that carry it.
C31_CountersMatchChangeLog ==
    \A k \in RunIdx :
       Done(k) =>
          /\ runs[k].vehicles_found = runs[k].vehicles_new + runs[k].vehicles_updated
          /\ runs[k].vehicles_new = EntriesCarrying(runs[k].task_id, "new")
          /\ runs[k].vehicles_removed = EntriesCarrying(runs[k].task_id, "removed")

(***************************************************************************)
(* Reading the Celery reconcile path                                       *)
(***************************************************************************)

\* C32: after a run of tasks.run_scrape every VIN of its fresh snapshot is
\* active, a VIN whose persisted record was inactive and equal in every
\* field included.
C32_CeleryFreshIsActive ==
    \A k \in RunIdx :
       (~runs[k].seed /\ Done(k)) => VinsOf(runs[k].fresh) \subseteq ActiveAfter(k)

(***************************************************************************)
(* Reading the number of loop tasks                                        *)
(***************************************************************************)

\* The loop tasks of the process that are not done.
RunningLoopTasks == (IF TaskDone(mon) THEN 0 ELSE 1) + Len(orphans)

\* C33: whatever configuration updates and cancellations followed start-up,
\* at most one scheduler loop task is running in the process.
C33_OneLoopTask == RunningLoopTasks <= 1

(***************************************************************************)
(* Reading the loop under a disabled configuration                         *)
(***************************************************************************)

\* A step of the running loop while the configuration is disabled: no drift
\* check, no last-check write, no run; from the top of the loop the task
\* goes to its 15-second sleep, and from there back to the top.
DisabledStep ==
    /\ mon'.pc \in {"idle", "disabled"}
    /\ mon.pc = "idle" => mon'.pc = "disabled" /\ mon'.sleep = 15
    /\ mon'.comparison = NoComparison
    /\ monitor_config' = monitor_config
    /\ UNCHANGED <<scrape_logs, alive, next_task, progress>>

\* C34: while the configuration is disabled a running loop makes no drift
\* check, writes no last-check field and launches no run, it only re-reads
\* the configuration every 15 seconds; and once the configuration is
\* enabled the loop performs a drift check, unless the monitor is disabled
\* again before.
C34_DisabledLoopIdles ==
    /\ [][(~monitor_config.enabled /\ LoopRuns) => DisabledStep]_vars
    /\ (monitor_config.enabled /\ mon.pc \in {"idle", "disabled", "checking"})
          ~> (mon.pc \in {"triggering", "sleeping"} \/ ~monitor_config.enabled)

\* The loop slept under the disabled configuration of the start, the
\* monitor was enabled and the same task has made a drift check.
C34_Witness ==
    /\ monitor_config.enabled
    /\ mon.pc = "sleeping"
    /\ monitor_config.last_check_result # << >>
    /\ "Monitor stopped" \notin system_logs
    /\ orphans = << >>

(***************************************************************************)
(* Reading who writes the catalog and its audit trail                      *)
(***************************************************************************)

\* A run subprocess finishes its execution of main.
RunEnds == Len(runs') = Len(runs) + 1 /\ \E t \in alive : alive' = alive \ {t}

\* C35: the vehicles table, the price history and the change log are
\* written by reconciliation runs only: a step that is no run (a drift
\* check, manual or of the scheduler, any other step of a scheduler cycle, a
\* trigger request, a configuration update) leaves the three as they are.
C35_OnlyRunsWriteCatalog ==
    [][RunEnds \/ UNCHANGED <<vehicles, change_log, price_history>>]_vars

\* A run has written the catalog after a manual drift check, next to a
\* trigger request that launched a run and an enabled scheduler.
C35_Witness ==
    /\ RunCount > 0
    /\ runs[Len(runs)].cl_to > runs[Len(runs)].cl_from
    /\ api.op = "compare_inventory"
    /\ _running_pids # {}
    /\ monitor_config.last_check_result # << >>


\* The value the detail stage provides for a field: the detail page's JSON-LD
\* first, its specs table second.
DetailVin(o)   == IF o.json_ld.present /\ o.json_ld.vin # "" THEN o.json_ld.vin
                  ELSE o.specs.vin
DetailPrice(o) == IF o.json_ld.present /\ o.json_ld.price # None THEN o.json_ld.price
                  ELSE o.specs.price

\* The per-field merge: the detail-stage value when there is one, otherwise
\* the hint's.
MergedVin(o)   == IF DetailVin(o) # "" THEN DetailVin(o) ELSE o.listing_ld.vin
MergedPrice(o) == IF DetailPrice(o) # None THEN DetailPrice(o) ELSE o.listing_ld.price

\* The runs made against a stub with a hint.
MergeRuns == {k \in 1..Len(runs) : ~runs[k].seed /\ runs[k].stubs = <<"u1">>
                                     /\ Len(runs[k].pages) = 1
                                     /\ "listing_ld" \in DOMAIN runs[k].pages[1]}

\* C36: the canonical record merges per field: every field is the detail
\* stage's value when the detail stage provides one and the listing hint's
\* value otherwise, also when the detail page has JSON-LD that lacks the
\* field.
C36_MergesPerField ==
    \A k \in MergeRuns :
        LET o == runs[k].pages[1]
        IN MergedVin(o) # "" =>
             /\ Len(runs[k].fresh) = 1
             /\ runs[k].fresh[1].vin = MergedVin(o)
             /\ runs[k].fresh[1].f["price"] = MergedPrice(o)


\* C37: pagination ends at the first listing page without stubs, in the run
\* and in the drift check and whatever the page's link to the next page
\* says (so that pagination without page limit ends on every site), and a
\* pagination that met such a page does not end as a failed run.
C37_EmptyPageEndsPaging ==
    paging.empty_at # 0 => paging.pc # "loading" /\ paging.outcome # "failed"

\* The comparisons in progress: between the write of line 538 and the
\* finally clause of line 545.
InProgress == {c \in Comparisons : sync.cmp[c].pc \in {"scanning", "comparing"}}

\* C38: get_sync_progress reports "idle" whenever no manual comparison is in
\* progress, also after one that raised, and reports a snapshot whenever one
\* is in progress, also when two overlap and one of them finishes first.
C38_SnapshotTracksComparison ==
    (InProgress = {}) <=> (get_sync_progress.status = "idle")


\* The runs made against a detail page with photos.
PhotoRuns == {k \in 1..Len(runs) : ~runs[k].seed /\ runs[k].stubs = <<"u1">>
                                     /\ Len(runs[k].pages) = 1
                                     /\ "photos" \in DOMAIN runs[k].pages[1]}

\* The photos of a list that downloaded and decoded, by index.
GoodPhotos(photo_urls) ==
    {i \in 1..Len(photo_urls) : photo_urls[i] \in {"jpg", "png"}}

\* C39: of n photo URLs of which k fail to download or to decode,
\* download_photos returns exactly n - k local references, in the original
\* order, nothing is raised, and the record is reconciled with them.
C39_PhotoFailuresSkipped ==
    \A k \in PhotoRuns :
        LET photo_urls == runs[k].pages[1].photos
            good       == GoodPhotos(photo_urls)
        IN /\ runs[k].status = COMPLETED
           /\ Len(runs[k].fresh) = 1
           /\ "VIN1" \in ActiveVins(vehicles)
           /\ LET local_paths == runs[k].fresh[1].photos
              IN /\ Len(local_paths) = Cardinality(good)
                 /\ {local_paths[i].fname : i \in 1..Len(local_paths)} = good
                 /\ \A i, j \in 1..Len(local_paths) :
                        i < j => local_paths[i].fname < local_paths[j].fname

====
